---- MODULE Spec2Model ----
(***************************************************************************)
(* Fleet DMS: maintenance due-state reconciliation.                        *)
(*                                                                         *)
(* The model follows backend/App/Api/endpoints/samsara.py and              *)
(* maintenance.py.  The state is the committed content of the tables the   *)
(* handlers read and write plus the position and SQLAlchemy session of     *)
(* every background task.  Request handlers are `async def` functions      *)
(* without an await, so each one is a single atomic action; a background   *)
(* task is cut at its awaits (the provider calls), and the provider's      *)
(* answer is chosen in the action that resumes after the await.            *)
(* Sessions are created with autoflush=False (database_module.py:46): an   *)
(* object passed to db.add() is invisible to the session's own queries     *)
(* until db.flush() or db.commit().                                        *)
(***************************************************************************)
EXTENDS Integers, Sequences, FiniteSets, Bags, TLC

\* ------------------------------------------------------------------ bounds
MaxSyncRuns == 2      \* background_sync_samsara runs that may be started
MaxFleet == 2         \* length of the vehicle list the provider returns
MaxEvents == 2        \* length of a diagnostic-code list of the provider
MaxResolves == 1      \* explicit resolutions of diagnostic codes
MaxVehicles == 1      \* vehicles created through create_vehicle
MaxSchedules == 1     \* templates created through create_maintenance_schedule
MaxAudit == 4         \* audit entries up to which an update handler is called
MaxLogRuns == 2       \* sync_samsara_maintenance_logs runs that may be started
MaxDefects == 2       \* defects of one inspection log of the provider
MaxDay == 2           \* days the clock advances
MaxTypes == 8         \* stat types a caller of a batched fetch names
MaxDeletes == 2       \* rows deleted from a table
MaxResets == 3        \* reset entries up to which reset_sync_status is called

\* None of Python / NULL of SQL
NULL == -1

\* ------------------------------------------------------- provider values
\* odometerMeters as reported by the provider: absent, 49000 miles and
\* 51000 miles
OdometerMeters == {NULL, 78858000, 82077000}
EngineHours == {NULL, 10, 20}
Codes == {"P0100", "P0200"}

\* a record of the provider's vehicle list; id "" stands for a record
\* without an id
NoVehicle == [id |-> "", odometerMeters |-> NULL]

\* sequences over S of length 0..n
SeqUpTo(S, n) == UNION {[1..k -> S] : k \in 0..n}

\* What a provider call gives the task: its data, or a failure (a response
\* that is not 200 or a network exception, raised as HTTPException 500).
\* The vehicle list is drawn element by element: its length when the list
\* arrives, each element when the loop reaches it.
VehicleAnswers ==
    {[status |-> 500, len |-> 0]} \cup [status : {200}, len : 0..MaxFleet]
StatsFailure == [status |-> 500, engineHours |-> NULL]
StatsAnswers == {StatsFailure} \cup [status : {200}, engineHours : EngineHours]
CodesFailure == [status |-> 500, data |-> <<>>]
CodeAnswers == {CodesFailure} \cup [status : {200}, data : SeqUpTo(Codes, MaxEvents)]

\* ---------------------------------------------------------------- state
VARIABLES
    vehicles,           \* table vehicles, vehicle_id = index
    diagnostic_codes,   \* table diagnostic_codes, a bag of rows (code_id left out)
    activity_logs,      \* table activity_logs, in insertion order
    schedules,          \* table maintenance_schedules, schedule_id = index
    assignments,        \* table vehicle_maintenance_schedules, id = index
    work_orders,        \* table work_orders, work_order_id = index
    now,                \* datetime.utcnow(), in days
    bg,                 \* background_sync_samsara tasks, by run
    ml,                 \* the sync_samsara_maintenance_logs task and its session
    last,               \* the step taken last: its input and its outcome
    resolves,           \* number of resolutions performed
    fetch,              \* a batched stats fetch from the provider in progress
    deleted,            \* ids of the deleted rows of schedules and assignments
    parts_inventory     \* table parts_inventory, part_id = index

vars == <<vehicles, diagnostic_codes, activity_logs, schedules, assignments,
          work_orders, now, bg, ml, last, resolves, fetch, deleted,
          parts_inventory>>

\* the tables and tasks of the maintenance side, which the telemetry sync
\* leaves alone
maintenanceVars == <<schedules, assignments, work_orders, now, ml>>

SyncRuns == 1..MaxSyncRuns

\* db.delete leaves a row's id unused for good: the rows of a table are the
\* positions of its sequence that were not deleted
NoneDeleted == [schedules |-> {}, assignments |-> {}]

\* the schedule_id values of the rows of maintenance_schedules
ScheduleIds == DOMAIN schedules \ deleted.schedules

\* the id values of the rows of vehicle_maintenance_schedules
AssignmentIds == DOMAIN assignments \ deleted.assignments

\* ------------------------------------------------------------- helpers
\* Python truthiness of an Optional number: None and 0 are false
Truthy(x) == x # NULL /\ x # 0

\* miles = int(odometer_meters / 1609.34) if odometer_meters else 0
\* (m / 1609.34 = 50 m / 80467, split so that no product exceeds 32 bits)
MetersToMiles(odometer_meters) ==
    IF Truthy(odometer_meters)
    THEN 50 * (odometer_meters \div 80467)
            + (50 * (odometer_meters % 80467)) \div 80467
    ELSE 0

\* models.ActivityLog(action=, entity_type=, entity_id=, details=); of the
\* details text the model keeps what a LIKE pattern of the code looks for:
\* the word "Samsara" and, after "Samsara Log ID: ", the provider's log id
ActivityLog(action, entity_type, entity_id, details) ==
    [action |-> action, entity_type |-> entity_type, entity_id |-> entity_id,
     details |-> details]

Details(samsara, log_id) == [samsara |-> samsara, log_id |-> log_id]

\* a query that finds no vehicle
NoVehicleFound(sid) == NULL

\* db.query(models.Vehicle).filter(samsara_id == sid).first()
VehicleBySamsaraId(sid) ==
    LET found == {v \in DOMAIN vehicles : vehicles[v].samsara_id = sid}
    IN  IF found = {} THEN NULL ELSE CHOOSE v \in found : \A w \in found : v <= w

\* db.query(models.DiagnosticCode).filter(vehicle_id == v, code == c).first()
\* (TRUE when a row is found: resolved_date is not part of the filter)
ExistingCode(vehicle_id, code_value) ==
    \E row \in BagToSet(diagnostic_codes) :
        row.vehicle_id = vehicle_id /\ row.code = code_value

RECURSIVE SelectSeq2(_, _)
\* the elements of seq s that are in the set Keep, in order
SelectSeq2(s, Keep) ==
    IF s = <<>> THEN <<>>
    ELSE IF Head(s) \in Keep THEN <<Head(s)>> \o SelectSeq2(Tail(s), Keep)
    ELSE SelectSeq2(Tail(s), Keep)

\* -------------------------------------------------- batched stats fetches
\* samsara.py lines 105-107, 208-209, 297-298: the types requested when
\* the caller names none
DefaultTypes == <<"engineStates", "obdOdometerMeters", "fuelPercents">>

\* names of the provider's stat types, the default ones first
StatTypeNames ==
    DefaultTypes \o <<"gps", "engineRpms", "batteryMilliVolts",
                      "engineCoolantTemperatureMilliC", "obdEngineSeconds",
                      "ambientAirTemperatureMilliC">>

\* a caller's list of n types (get_vehicle_stats, lines 531-539)
RequestedTypes(n) == SubSeq(StatTypeNames, 1, n)

Min(a, b) == IF a <= b THEN a ELSE b

\* batches of four types
BatchesOfFour(types) ==
    [b \in 1..((Len(types) + 3) \div 4) |->
        SubSeq(types, 4 * (b - 1) + 1, Min(4 * b, Len(types)))]

\* lines 111-113, 213-215, 306-308: for i in range(0, len(types), 3):
\* batches.append(types[i:i+3])
Batches(types) ==
    [b \in 1..((Len(types) + 2) \div 3) |->
        SubSeq(types, 3 * (b - 1) + 1, Min(3 * b, Len(types)))]

\* the provider's record of vehicle v for the types of one batch: the
\* vehicle's id and one field per type.  A field's value stands for the
\* vehicle the provider measured it on.
StatsRecord(v, batch) ==
    [f \in {"id"} \cup {batch[i] : i \in DOMAIN batch} |-> v]

\* dict.update: the fields of batch_data are set on combined_stats
Update(combined_stats, batch_data) ==
    [f \in DOMAIN combined_stats \cup DOMAIN batch_data |->
        IF f \in DOMAIN batch_data THEN batch_data[f] ELSE combined_stats[f]]

\* lines 247-255 and 342-350: the first non-empty batch is taken as it is,
\* a later one is merged into it record by record, by position
MergeByIndex(all_vehicle_stats, batch_data) ==
    IF Len(all_vehicle_stats) = 0 THEN batch_data
    ELSE [i \in DOMAIN all_vehicle_stats |->
             IF i <= Len(batch_data)
             THEN Update(all_vehicle_stats[i], batch_data[i])
             ELSE all_vehicle_stats[i]]

\* a fetch: the function called (fn), its position, the types and vehicle
\* ids asked for, the batches, the type lists of the requests sent so far
\* (calls), the provider's answers so far and what the function returned
IdleFetch == [fn |-> "", pc |-> "idle", types |-> <<>>, vehicle_ids |-> <<>>,
              batches |-> <<>>, calls |-> <<>>, answers |-> <<>>,
              result |-> <<>>]

\* ----------------------------------------------------------------- Init
\* a background_sync_samsara task: position, length of the fetched list,
\* index of the element in hand, the local vehicle_id and the number of
\* results appended
IdleRun == [pc |-> "idle", len |-> 0, i |-> 0, vehicle_id |-> NULL, results |-> 0]

\* a sync_samsara_maintenance_logs task: position, the vehicles queried at
\* the start (maintenance.py:724), the index of the vehicle in hand, the number of
\* results and runs, and what its session holds uncommitted: schedules added
\* and flushed, assignments added, attribute changes of loaded assignments
\* (by id), audit entries added, how many of them a flush wrote and whether
\* a flush raised
IdleLogRun == [pc |-> "idle", vehicles |-> <<>>, i |-> 0, results |-> 0,
               runs |-> 0, new_schedules |-> <<>>, new_assignments |-> <<>>,
               dirty |-> <<>>, new_logs |-> <<>>, flushed |-> 0,
               error |-> FALSE]

\* op: the handler or task step; id: the run or the row it addressed;
\* status: the HTTP status of the response (of the provider's response for a
\* task step); vehicle, stats, codes: the provider's answers; body: the
\* request body; response: the body of the response
NoStep == [op |-> "", id |-> 0, status |-> 0, vehicle |-> NoVehicle,
           stats |-> StatsFailure, codes |-> CodesFailure, body |-> <<>>,
           response |-> <<>>]

Init ==
    /\ vehicles = <<>>
    /\ diagnostic_codes = EmptyBag
    /\ activity_logs = <<>>
    /\ schedules = <<>>
    /\ assignments = <<>>
    /\ work_orders = <<>>
    /\ now = 0
    /\ bg = [r \in SyncRuns |-> IdleRun]
    /\ ml = IdleLogRun
    /\ last = NoStep
    /\ resolves = 0
    /\ fetch = IdleFetch
    /\ deleted = NoneDeleted
    /\ parts_inventory = <<>>

\* ------------------------------------------------ background_sync_samsara
\* sync_samsara_vehicles (lines 489-509) adds the task without any check;
\* lines 727-738: the task starts, logs SYNC/SYSTEM and commits, then awaits
\* fetch_samsara_vehicles.  Runs are numbered in the order they start.
background_sync_samsara_start(r) ==
    /\ bg[r].pc = "idle"
    /\ \A q \in SyncRuns : q < r => bg[q].pc # "idle"
    /\ activity_logs' = Append(activity_logs, ActivityLog("SYNC", "SYSTEM", 0, Details(TRUE, "")))
    /\ bg' = [bg EXCEPT ![r].pc = "fetch"]
    /\ last' = [NoStep EXCEPT !.op = "sync_start", !.id = r]
    /\ UNCHANGED <<parts_inventory, fetch, deleted, vehicles, diagnostic_codes, resolves, maintenanceVars>>

\* lines 946-958 when the loop is over, else the next iteration up to its
\* first await (fetch_vehicle_stats, line 790)
AfterVehicle(run, logs) ==
    IF run.i > run.len
    THEN [run |-> [run EXCEPT !.pc = "done"],
          logs |-> Append(logs, ActivityLog("SYNC_COMPLETE", "SYSTEM", 0, Details(TRUE, "")))]
    ELSE [run |-> [run EXCEPT !.pc = "stats"], logs |-> logs]

\* lines 741-747 and the except clause 960-973: fetch_samsara_vehicles
\* answers with a list or raises HTTPException
background_sync_samsara_fetch(r, answer) ==
    /\ bg[r].pc = "fetch"
    /\ IF answer.status # 200
       THEN /\ activity_logs' =
                   Append(activity_logs, ActivityLog("ERROR", "SYSTEM", 0, Details(TRUE, "")))
            /\ bg' = [bg EXCEPT ![r].pc = "failed"]
       ELSE LET nxt == AfterVehicle([bg[r] EXCEPT !.len = answer.len, !.i = 1],
                                    activity_logs)
            IN  /\ activity_logs' = nxt.logs
                /\ bg' = [bg EXCEPT ![r] = nxt.run]
    /\ last' = [NoStep EXCEPT !.op = "sync_fetch", !.id = r,
                              !.status = answer.status]
    /\ UNCHANGED <<parts_inventory, fetch, deleted, vehicles, diagnostic_codes, resolves, maintenanceVars>>

\* lines 831-838: the stored odometer and engine hours of a matching vehicle
UpdateExistingVehicle(db_vehicle, miles, engine_hours) ==
    [db_vehicle EXCEPT
        !.mileage = miles,
        !.engine_hours = IF engine_hours # NULL THEN engine_hours ELSE @]

\* line 859: vehicle.get("vin", f"SAMSARA-{samsara_id}")
ProviderVin(vehicle) ==
    IF "vin" \in DOMAIN vehicle THEN vehicle.vin ELSE <<"SAMSARA-", vehicle.id>>

\* models.py:15, vin is unique: db.flush() (line 874) raises IntegrityError
\* when a stored vehicle has the vin
FlushRaises(vin) == \E v \in DOMAIN vehicles : vehicles[v].vin = vin

\* lines 856-873
NewVehicle(samsara_id, vin, miles, engine_hours) ==
    [samsara_id |-> samsara_id, vin |-> vin,
     mileage |-> miles, engine_hours |-> engine_hours,
     last_service_date |-> NULL]

\* lines 749-893: the loop reaches the record `vehicle` of the fetched list
\* and fetch_vehicle_stats has answered `stats` (status 500 when it raised,
\* lines 792-793); the vehicle is updated or created and committed.  When
\* db.flush() raises for the new vehicle, the except clause (960-973) adds
\* its ERROR entry to a session whose transaction the failed flush has
\* deactivated: db.commit() raises PendingRollbackError out of the task,
\* the pending rows are discarded and nothing is written
background_sync_samsara_vehicle(r, vehicle, stats) ==
    /\ bg[r].pc = "stats"
    /\ LET run == bg[r]
       IN  IF vehicle.id = ""
           THEN \* lines 759-761: no id, continue
                LET nxt == AfterVehicle([run EXCEPT !.i = @ + 1], activity_logs)
                IN  /\ bg' = [bg EXCEPT ![r] = nxt.run]
                    /\ activity_logs' = nxt.logs
                    /\ last' = [NoStep EXCEPT !.op = "sync_skip", !.id = r]
                    /\ UNCHANGED vehicles
           ELSE LET miles == MetersToMiles(vehicle.odometerMeters)
                    engine_hours == IF stats.status # 200 THEN NULL
                                    ELSE stats.engineHours
                    db_vehicle == VehicleBySamsaraId(vehicle.id)
                IN  IF db_vehicle # NULL
                    THEN /\ vehicles' = [vehicles EXCEPT ![db_vehicle] =
                                UpdateExistingVehicle(@, miles, engine_hours)]
                         /\ activity_logs' = Append(activity_logs,
                                ActivityLog("UPDATE", "VEHICLE", db_vehicle,
                                            Details(TRUE, "")))
                         /\ bg' = [bg EXCEPT ![r].pc = "codes",
                                             ![r].vehicle_id = db_vehicle]
                         /\ last' = [NoStep EXCEPT !.op = "sync_update", !.id = r,
                                        !.vehicle = vehicle, !.stats = stats]
                    ELSE IF FlushRaises(ProviderVin(vehicle))
                    THEN /\ bg' = [bg EXCEPT ![r].pc = "crashed"]
                         /\ last' = [NoStep EXCEPT !.op = "sync_crash", !.id = r,
                                        !.vehicle = vehicle, !.stats = stats]
                         /\ UNCHANGED <<vehicles, activity_logs>>
                    ELSE /\ vehicles' = Append(vehicles,
                                NewVehicle(vehicle.id, ProviderVin(vehicle),
                                           miles, engine_hours))
                         /\ activity_logs' = Append(activity_logs,
                                ActivityLog("CREATE", "VEHICLE", Len(vehicles) + 1,
                                            Details(TRUE, "")))
                         /\ bg' = [bg EXCEPT ![r].pc = "codes",
                                             ![r].vehicle_id = Len(vehicles) + 1]
                         /\ last' = [NoStep EXCEPT !.op = "sync_create", !.id = r,
                                        !.vehicle = vehicle, !.stats = stats]
    /\ UNCHANGED <<parts_inventory, fetch, deleted, diagnostic_codes, resolves, maintenanceVars>>

\* lines 923-929
NewDiagnosticCode(vehicle_id, code_value) ==
    [vehicle_id |-> vehicle_id, code |-> code_value, resolved_date |-> NULL,
     severity |-> "Medium", reported_date |-> now, work_order_id |-> NULL]

\* lines 902-911: the events of the fetched list for which the query finds
\* no row; rows added earlier in the loop are pending and not flushed, so the
\* query answers from the committed table for every event of the list
CodesToCreate(vehicle_id, diagnostic_list) ==
    SelectSeq2(diagnostic_list,
               {c \in Codes : ~ExistingCode(vehicle_id, c)})

RECURSIVE NewCodeRows(_, _)
\* db.add(new_code) for every element of created
NewCodeRows(vehicle_id, created) ==
    IF created = <<>> THEN EmptyBag
    ELSE SetToBag({NewDiagnosticCode(vehicle_id, Head(created))})
            (+) NewCodeRows(vehicle_id, Tail(created))

\* lines 895-944: fetch_diagnostic_codes has answered (or raised, lines
\* 940-942); new codes are added and committed, the result is appended
background_sync_samsara_codes(r, answer) ==
    /\ bg[r].pc = "codes"
    /\ LET run == bg[r]
           created == IF answer.status # 200 THEN <<>>
                      ELSE CodesToCreate(run.vehicle_id, answer.data)
           nxt == AfterVehicle([run EXCEPT !.i = @ + 1, !.results = @ + 1],
                               activity_logs)
       IN  /\ diagnostic_codes' =
                   diagnostic_codes (+) NewCodeRows(run.vehicle_id, created)
           /\ bg' = [bg EXCEPT ![r] = nxt.run]
           /\ activity_logs' = nxt.logs
           /\ last' = [NoStep EXCEPT !.op = "sync_codes", !.id = r,
                                     !.codes = answer]
    /\ UNCHANGED <<parts_inventory, fetch, deleted, vehicles, resolves, maintenanceVars>>

\* A diagnostic code is resolved (resolved_date set).  No handler of the
\* repository's sources writes resolved_date; the operation is the explicit
\* resolution of the data model (DiagnosticRecord, "explicit resolution").
resolve_diagnostic_code(row) ==
    /\ resolves < MaxResolves
    /\ BagIn(row, diagnostic_codes)
    /\ row.resolved_date = NULL
    /\ diagnostic_codes' = (diagnostic_codes (-) SetToBag({row}))
                              (+) SetToBag({[row EXCEPT !.resolved_date = 1]})
    /\ resolves' = resolves + 1
    /\ last' = [NoStep EXCEPT !.op = "resolve"]
    /\ UNCHANGED <<parts_inventory, fetch, deleted, vehicles, activity_logs, bg, maintenanceVars>>

\* -------------------------------------------------------- request handlers
\* A handler runs on a session of its own (get_db, database_module.py:52-57):
\* what it changed is in the tables when it committed, and is dropped with
\* the session when it raised before db.commit().

\* the clock advances
Tick ==
    /\ now < MaxDay
    /\ now' = now + 1
    /\ last' = [NoStep EXCEPT !.op = "tick"]
    /\ UNCHANGED <<parts_inventory, fetch, deleted, vehicles, diagnostic_codes, activity_logs, schedules,
                   assignments, work_orders, bg, ml, resolves>>

\* vehicles.py create_vehicle: 400 when the vin exists; the unique index on
\* samsara_id (models.py:16) fails the commit of a second vehicle with the
\* same samsara_id ("" is None: no samsara_id)
create_vehicle(vehicle) ==
    /\ Len(vehicles) < MaxVehicles
    /\ LET status == IF \E v \in DOMAIN vehicles : vehicles[v].vin = vehicle.vin
                     THEN 400
                     ELSE IF vehicle.samsara_id # "" /\ VehicleBySamsaraId(vehicle.samsara_id) # NULL
                     THEN 500
                     ELSE 201
           new_vehicle == [samsara_id |-> vehicle.samsara_id, vin |-> vehicle.vin,
                           mileage |-> vehicle.mileage,
                           engine_hours |-> vehicle.engine_hours,
                           last_service_date |-> NULL]
       IN  /\ vehicles' = IF status = 201 THEN Append(vehicles, new_vehicle) ELSE vehicles
           /\ activity_logs' = IF status = 201
                  THEN Append(activity_logs, ActivityLog("CREATE", "VEHICLE",
                         Len(vehicles) + 1, Details(FALSE, "")))
                  ELSE activity_logs
           /\ last' = [NoStep EXCEPT !.op = "create_vehicle", !.status = status,
                                     !.body = vehicle]
    /\ UNCHANGED <<parts_inventory, fetch, deleted, diagnostic_codes, schedules, assignments, work_orders, now,
                   bg, ml, resolves>>

\* maintenance.py lines 46-69 and 136-159: the validation of a template
ScheduleIsValid(schedule) ==
    /\ schedule.is_mileage_based \/ schedule.is_time_based
           \/ schedule.is_engine_hours_based
    /\ schedule.is_mileage_based => Truthy(schedule.mileage_interval)
    /\ schedule.is_time_based => Truthy(schedule.time_interval_days)
    /\ schedule.is_engine_hours_based => Truthy(schedule.engine_hours_interval)

\* maintenance.py create_maintenance_schedule
create_maintenance_schedule(schedule) ==
    /\ Len(schedules) < MaxSchedules
    /\ LET status == IF ScheduleIsValid(schedule) THEN 201 ELSE 400
       IN  /\ schedules' = IF status = 201 THEN Append(schedules, schedule) ELSE schedules
           /\ activity_logs' = IF status = 201
                  THEN Append(activity_logs, ActivityLog("CREATE", "MAINTENANCE_SCHEDULE",
                         Len(schedules) + 1, Details(FALSE, "")))
                  ELSE activity_logs
           /\ last' = [NoStep EXCEPT !.op = "create_schedule", !.status = status,
                                     !.body = schedule]
    /\ UNCHANGED <<parts_inventory, fetch, deleted, vehicles, diagnostic_codes, assignments, work_orders, now,
                   bg, ml, resolves>>

\* for key, value in update_data.items(): setattr(row, key, value)
SetAttrs(row, update_data) ==
    [f \in DOMAIN row |-> IF f \in DOMAIN update_data THEN update_data[f] ELSE row[f]]

\* maintenance.py update_maintenance_schedule: the template is changed and
\* validated; no assignment is read or written
update_maintenance_schedule(schedule_id, schedule_update) ==
    /\ Len(activity_logs) < MaxAudit
    /\ LET found == schedule_id \in ScheduleIds
           db_schedule == SetAttrs(schedules[schedule_id], schedule_update)
           status == IF ~found THEN 404
                     ELSE IF ScheduleIsValid(db_schedule) THEN 200 ELSE 400
       IN  /\ schedules' = IF status = 200
                          THEN [schedules EXCEPT ![schedule_id] = db_schedule]
                          ELSE schedules
           /\ activity_logs' = IF status = 200
                  THEN Append(activity_logs, ActivityLog("UPDATE", "MAINTENANCE_SCHEDULE",
                         schedule_id, Details(FALSE, "")))
                  ELSE activity_logs
           /\ last' = [NoStep EXCEPT !.op = "update_schedule", !.id = schedule_id,
                                     !.status = status, !.body = schedule_update]
    /\ UNCHANGED <<parts_inventory, fetch, deleted, vehicles, diagnostic_codes, assignments, work_orders, now,
                   bg, ml, resolves>>

\* the lookup of the pair left out
NoExistingAssignment(vehicle_id, schedule_id) == NULL

\* db.query(models.VehicleMaintenanceSchedule).filter(vehicle_id == v,
\* schedule_id == s).first(): the id of the row, or NULL
ExistingAssignment(vehicle_id, schedule_id) ==
    LET found == {a \in AssignmentIds :
                     /\ assignments[a].vehicle_id = vehicle_id
                     /\ assignments[a].schedule_id = schedule_id}
    IN  IF found = {} THEN NULL ELSE CHOOSE a \in found : \A b \in found : a <= b

\* maintenance.py lines 414-434: the next due values of a new assignment
AssignNextDue(assignment, schedule, vehicle) ==
    [next_due_date |->
        IF schedule.is_time_based /\ Truthy(schedule.time_interval_days)
        THEN IF assignment.last_performed_date # NULL
             THEN assignment.last_performed_date + schedule.time_interval_days
             ELSE now + schedule.time_interval_days
        ELSE NULL,
     next_due_mileage |->
        IF schedule.is_mileage_based /\ Truthy(schedule.mileage_interval)
        THEN IF Truthy(assignment.last_performed_mileage)
             THEN assignment.last_performed_mileage + schedule.mileage_interval
             ELSE IF Truthy(vehicle.mileage)
             THEN vehicle.mileage + schedule.mileage_interval
             ELSE NULL
        ELSE NULL,
     next_due_engine_hours |->
        IF schedule.is_engine_hours_based /\ Truthy(schedule.engine_hours_interval)
        THEN IF Truthy(assignment.last_performed_engine_hours)
             THEN assignment.last_performed_engine_hours + schedule.engine_hours_interval
             ELSE IF Truthy(vehicle.engine_hours)
             THEN vehicle.engine_hours + schedule.engine_hours_interval
             ELSE NULL
        ELSE NULL]

\* maintenance.py lines 437-446
NewAssignment(assignment, next_due) ==
    [vehicle_id |-> assignment.vehicle_id,
     schedule_id |-> assignment.schedule_id,
     last_performed_date |-> assignment.last_performed_date,
     last_performed_mileage |-> assignment.last_performed_mileage,
     last_performed_engine_hours |-> assignment.last_performed_engine_hours,
     next_due_date |-> next_due.next_due_date,
     next_due_mileage |-> next_due.next_due_mileage,
     next_due_engine_hours |-> next_due.next_due_engine_hours]

\* maintenance.py assign_maintenance_schedule
assign_maintenance_schedule(assignment) ==
    LET status ==
            IF assignment.vehicle_id \notin DOMAIN vehicles THEN 404
            ELSE IF assignment.schedule_id \notin ScheduleIds THEN 404
            ELSE IF ExistingAssignment(assignment.vehicle_id,
                                       assignment.schedule_id) # NULL THEN 400
            ELSE 201
        new_assignment ==
            NewAssignment(assignment,
                AssignNextDue(assignment, schedules[assignment.schedule_id],
                              vehicles[assignment.vehicle_id]))
    IN  /\ assignments' = IF status = 201 THEN Append(assignments, new_assignment)
                          ELSE assignments
        /\ activity_logs' =
               IF status = 201
               THEN Append(activity_logs,
                        ActivityLog("CREATE", "VEHICLE_MAINTENANCE_SCHEDULE",
                                    Len(assignments) + 1, Details(FALSE, "")))
               ELSE activity_logs
        /\ last' = [NoStep EXCEPT !.op = "assign", !.status = status,
                                  !.body = assignment]
        /\ UNCHANGED <<parts_inventory, fetch, deleted, vehicles, diagnostic_codes, schedules, work_orders, now,
                       bg, ml, resolves>>

\* every next due value is recomputed from the row's last performed value
\* when any of them was supplied
RecomputedAll(db_assignment, update_data, schedule) ==
    LET set == SetAttrs(db_assignment, update_data)
        supplied == DOMAIN update_data \cap {"last_performed_date",
                        "last_performed_mileage", "last_performed_engine_hours"} # {}
    IN  [set EXCEPT
            !.next_due_date =
                IF supplied /\ schedule.is_time_based
                THEN set.last_performed_date + schedule.time_interval_days ELSE @,
            !.next_due_mileage =
                IF supplied /\ schedule.is_mileage_based
                THEN set.last_performed_mileage + schedule.mileage_interval ELSE @,
            !.next_due_engine_hours =
                IF supplied /\ schedule.is_engine_hours_based
                THEN set.last_performed_engine_hours + schedule.engine_hours_interval
                ELSE @]

\* maintenance.py lines 496-511: the supplied attributes are set, then next
\* due is recomputed for each dimension whose last performed value was
\* supplied
UpdatedAssignment(db_assignment, update_data, schedule) ==
    LET set == SetAttrs(db_assignment, update_data)
    IN  [set EXCEPT
            !.next_due_date =
                IF "last_performed_date" \in DOMAIN update_data
                    /\ schedule.is_time_based /\ Truthy(schedule.time_interval_days)
                THEN set.last_performed_date + schedule.time_interval_days ELSE @,
            !.next_due_mileage =
                IF "last_performed_mileage" \in DOMAIN update_data
                    /\ schedule.is_mileage_based /\ Truthy(schedule.mileage_interval)
                THEN set.last_performed_mileage + schedule.mileage_interval ELSE @,
            !.next_due_engine_hours =
                IF "last_performed_engine_hours" \in DOMAIN update_data
                    /\ schedule.is_engine_hours_based
                    /\ Truthy(schedule.engine_hours_interval)
                THEN set.last_performed_engine_hours + schedule.engine_hours_interval
                ELSE @]

\* None + interval raises TypeError in lines 503, 507 and 511
UpdateRaises(update_data, schedule) ==
    \/ /\ "last_performed_date" \in DOMAIN update_data
       /\ update_data.last_performed_date = NULL
       /\ schedule.is_time_based /\ Truthy(schedule.time_interval_days)
    \/ /\ "last_performed_mileage" \in DOMAIN update_data
       /\ update_data.last_performed_mileage = NULL
       /\ schedule.is_mileage_based /\ Truthy(schedule.mileage_interval)
    \/ /\ "last_performed_engine_hours" \in DOMAIN update_data
       /\ update_data.last_performed_engine_hours = NULL
       /\ schedule.is_engine_hours_based /\ Truthy(schedule.engine_hours_interval)

\* maintenance.py update_maintenance_assignment
update_maintenance_assignment(assignment_id, assignment_update) ==
    /\ Len(activity_logs) < MaxAudit
    /\ LET found == assignment_id \in AssignmentIds
           db_assignment == assignments[assignment_id]
           schedule == schedules[db_assignment.schedule_id]
           status == IF ~found THEN 404
                     ELSE IF UpdateRaises(assignment_update, schedule) THEN 500
                     ELSE 200
       IN  /\ assignments' =
                  IF status = 200
                  THEN [assignments EXCEPT ![assignment_id] =
                           UpdatedAssignment(db_assignment, assignment_update, schedule)]
                  ELSE assignments
           /\ activity_logs' =
                  IF status = 200
                  THEN Append(activity_logs,
                           ActivityLog("UPDATE", "VEHICLE_MAINTENANCE_SCHEDULE",
                                       assignment_id, Details(FALSE, "")))
                  ELSE activity_logs
           /\ last' = [NoStep EXCEPT !.op = "update_assignment",
                          !.id = assignment_id, !.status = status,
                          !.body = assignment_update]
    /\ UNCHANGED <<parts_inventory, fetch, deleted, vehicles, diagnostic_codes, schedules, work_orders, now, bg,
                   ml, resolves>>

\* schemas.py lines 440-447: the fields of MaintenanceCompletion
MaintenanceCompletionFields ==
    {"assignment_id", "completion_date", "current_mileage",
     "current_engine_hours", "technician_id", "hours_spent", "notes"}

\* pydantic builds the object from the request body: a declared field that
\* the body lacks is None, a key of the body that is not declared is dropped
MaintenanceCompletion(body) ==
    [f \in MaintenanceCompletionFields |-> IF f \in DOMAIN body THEN body[f] ELSE NULL]

\* obj.name raises AttributeError when obj has no attribute name
HasAttr(obj, name) == name \in DOMAIN obj

\* completion.completion_date or datetime.utcnow()
CompletionDate(completion) ==
    IF completion.completion_date # NULL THEN completion.completion_date ELSE now

\* maintenance.py lines 600-628: last performed and next due of the assignment
CompletedAssignment(db_assignment, completion, vehicle, schedule) ==
    LET mileage == IF Truthy(completion.current_mileage)
                   THEN completion.current_mileage ELSE vehicle.mileage
        hours == IF Truthy(completion.current_engine_hours)
                 THEN completion.current_engine_hours ELSE vehicle.engine_hours
    IN  [db_assignment EXCEPT
            !.last_performed_date = CompletionDate(completion),
            !.last_performed_mileage = mileage,
            !.last_performed_engine_hours = hours,
            !.next_due_date =
                IF schedule.is_time_based /\ Truthy(schedule.time_interval_days)
                THEN CompletionDate(completion) + schedule.time_interval_days
                ELSE @,
            !.next_due_mileage =
                IF schedule.is_mileage_based /\ Truthy(schedule.mileage_interval)
                THEN mileage + schedule.mileage_interval ELSE @,
            !.next_due_engine_hours =
                IF schedule.is_engine_hours_based
                    /\ Truthy(schedule.engine_hours_interval)
                THEN hours + schedule.engine_hours_interval ELSE @]

\* maintenance.py lines 603-617 and 650: the vehicle's odometer and engine
\* hours are raised to the supplied values, last_service_date is set
CompletedVehicle(vehicle, completion) ==
    [vehicle EXCEPT
        !.mileage =
            IF Truthy(completion.current_mileage)
                /\ (~Truthy(@) \/ completion.current_mileage > @)
            THEN completion.current_mileage ELSE @,
        !.engine_hours =
            IF Truthy(completion.current_engine_hours)
                /\ (~Truthy(@) \/ completion.current_engine_hours > @)
            THEN completion.current_engine_hours ELSE @,
        !.last_service_date = CompletionDate(completion)]

\* lines 623-627: None + interval raises TypeError when neither the
\* completion nor the vehicle has a value for an enabled dimension
NextDueRaises(completion, vehicle, schedule) ==
    \/ /\ schedule.is_mileage_based /\ Truthy(schedule.mileage_interval)
       /\ ~Truthy(completion.current_mileage) /\ vehicle.mileage = NULL
    \/ /\ schedule.is_engine_hours_based /\ Truthy(schedule.engine_hours_interval)
       /\ ~Truthy(completion.current_engine_hours) /\ vehicle.engine_hours = NULL

\* line 631: completion.create_work_order (AttributeError when the schema
\* has no such field), after the statements that raise TypeError
CompleteRaises(completion, vehicle, schedule) ==
    \/ NextDueRaises(completion, vehicle, schedule)
    \/ ~HasAttr(completion, "create_work_order")

\* db.commit() placed before the work-order step
CommitBeforeWorkOrder(completion, vehicle, schedule) ==
    ~NextDueRaises(completion, vehicle, schedule)

\* line 666: db.commit() is reached when no statement before it raised
ReachesCommit(completion, vehicle, schedule) ==
    ~CompleteRaises(completion, vehicle, schedule)

\* lines 632-646
NewWorkOrder(vehicle_id) == [vehicle_id |-> vehicle_id, status |-> "Completed"]

\* maintenance.py complete_maintenance; body is the request body
complete_maintenance(assignment_id, body) ==
    LET completion == MaintenanceCompletion(body)
        found == assignment_id \in AssignmentIds
        db_assignment == assignments[assignment_id]
        vehicle == vehicles[db_assignment.vehicle_id]
        schedule == schedules[db_assignment.schedule_id]
        status == IF ~found THEN 404
                  ELSE IF CompleteRaises(completion, vehicle, schedule) THEN 500
                  ELSE 200
        commit == found /\ ReachesCommit(completion, vehicle, schedule)
        create_work_order == HasAttr(completion, "create_work_order")
                                /\ completion.create_work_order
    IN  /\ assignments' =
               IF commit
               THEN [assignments EXCEPT ![assignment_id] =
                        CompletedAssignment(@, completion, vehicle, schedule)]
               ELSE assignments
        /\ vehicles' =
               IF commit
               THEN [vehicles EXCEPT ![db_assignment.vehicle_id] =
                        CompletedVehicle(@, completion)]
               ELSE vehicles
        /\ work_orders' =
               IF commit /\ create_work_order
               THEN Append(work_orders, NewWorkOrder(db_assignment.vehicle_id))
               ELSE work_orders
        /\ activity_logs' =
               IF commit
               THEN Append(activity_logs, ActivityLog("COMPLETE", "MAINTENANCE",
                                              assignment_id, Details(FALSE, "")))
               ELSE activity_logs
        /\ last' = [NoStep EXCEPT !.op = "complete", !.id = assignment_id,
                                  !.status = status, !.body = body]
        /\ UNCHANGED <<parts_inventory, fetch, deleted, diagnostic_codes, schedules, now, bg, ml, resolves>>

\* no assignment is looked for
NotAssigned(schedule_id) == NULL

\* maintenance.py lines 196-198: db.query(VehicleMaintenanceSchedule)
\* .filter(schedule_id == schedule_id).first(): the id of an assignment of
\* the template, or NULL
AssignedTo(schedule_id) ==
    LET found == {a \in AssignmentIds : assignments[a].schedule_id = schedule_id}
    IN  IF found = {} THEN NULL ELSE CHOOSE a \in found : \A b \in found : a <= b

\* maintenance.py delete_maintenance_schedule: 404 for an unknown template,
\* 400 while an assignment references it, else the row is deleted and a
\* DELETE entry written in one commit (line 222)
delete_maintenance_schedule(schedule_id) ==
    LET status == IF schedule_id \notin ScheduleIds THEN 404
                  ELSE IF AssignedTo(schedule_id) # NULL THEN 400
                  ELSE 204
    IN  /\ Cardinality(deleted.schedules) < MaxDeletes
        /\ deleted' = IF status = 204
                      THEN [deleted EXCEPT !.schedules = @ \cup {schedule_id}]
                      ELSE deleted
        /\ activity_logs' =
               IF status = 204
               THEN Append(activity_logs,
                        ActivityLog("DELETE", "MAINTENANCE_SCHEDULE",
                                    schedule_id, Details(FALSE, "")))
               ELSE activity_logs
        /\ last' = [NoStep EXCEPT !.op = "delete_schedule", !.id = schedule_id,
                                  !.status = status]
        /\ UNCHANGED <<parts_inventory, fetch, vehicles, diagnostic_codes, schedules, assignments,
                       work_orders, now, bg, ml, resolves>>

\* maintenance.py delete_maintenance_assignment: 404 for an unknown
\* assignment, else the row is deleted and a DELETE entry written in one
\* commit (line 569)
delete_maintenance_assignment(assignment_id) ==
    LET status == IF assignment_id \notin AssignmentIds THEN 404 ELSE 204
    IN  /\ Cardinality(deleted.assignments) < MaxDeletes
        /\ deleted' = IF status = 204
                      THEN [deleted EXCEPT !.assignments = @ \cup {assignment_id}]
                      ELSE deleted
        /\ activity_logs' =
               IF status = 204
               THEN Append(activity_logs,
                        ActivityLog("DELETE", "VEHICLE_MAINTENANCE_SCHEDULE",
                                    assignment_id, Details(FALSE, "")))
               ELSE activity_logs
        /\ last' = [NoStep EXCEPT !.op = "delete_assignment",
                                  !.id = assignment_id, !.status = status]
        /\ UNCHANGED <<parts_inventory, fetch, vehicles, diagnostic_codes, schedules, assignments,
                       work_orders, now, bg, ml, resolves>>

\* ------------------------------------------- sync_samsara_maintenance_logs
\* The task works on one session and commits once, after the last vehicle
\* (line 843).  Until then its session holds: new_schedules, added and
\* flushed (line 787), with ids of their own, here -2, -3, ...;
\* new_assignments and new_logs, added and not flushed; dirty, the attributes
\* it changed on loaded assignments; flushed, the number of new_logs a flush
\* has written.

\* name ILIKE '%pattern%', names being sequences of lower-case words
Contains(name, pattern) ==
    \E k \in 0..(Len(name) - Len(pattern)) :
        SubSeq(name, k + 1, k + Len(pattern)) = pattern

\* lines 770-772
MaintenanceName(defect) ==
    IF defect.comment # <<>> THEN defect.comment
    ELSE <<"defect:", defect.defectType>>

\* lines 774-776: the first template whose name contains the defect's name,
\* among the committed ones and those the session flushed; its id or NULL
MatchingSchedule(s, maintenance_name) ==
    LET committed == {i \in ScheduleIds :
                         Contains(schedules[i].name, maintenance_name)}
        flushed == {k \in DOMAIN s.new_schedules :
                         Contains(s.new_schedules[k].name, maintenance_name)}
    IN  IF committed # {} THEN CHOOSE i \in committed : \A j \in committed : i <= j
        ELSE IF flushed # {}
        THEN -1 - (CHOOSE k \in flushed : \A j \in flushed : k <= j)
        ELSE NULL

SessionSchedule(s, schedule_id) ==
    IF schedule_id < 0 THEN s.new_schedules[-1 - schedule_id]
    ELSE schedules[schedule_id]

\* lines 780-787, with the column defaults of models.py lines 45-47
AutoSchedule(maintenance_name) ==
    [name |-> maintenance_name, is_mileage_based |-> TRUE,
     mileage_interval |-> NULL, is_time_based |-> TRUE,
     time_interval_days |-> 90, is_engine_hours_based |-> FALSE,
     engine_hours_interval |-> NULL]

\* an assignment row as the session has it
SessionAssignment(s, a) ==
    IF a \in DOMAIN s.dirty THEN SetAttrs(assignments[a], s.dirty[a])
    ELSE assignments[a]

\* activity_logs.entity_id is NOT NULL (models.py:302): writing the
\* session's audit entries raises IntegrityError when one of them has
\* entity_id None
HasNullEntity(s) ==
    \E k \in DOMAIN s.new_logs : s.new_logs[k].entity_id = NULL

\* the characters of a provider's log id
Chars(log_id) ==
    CASE log_id = "L1" -> <<"L", "1">>
      [] log_id = "L10" -> <<"L", "1", "0">>
      [] log_id = "L2" -> <<"L", "2">>
      [] OTHER -> <<log_id>>

\* the text begins with the id: the id is the last part of the details text
\* (lines 826-830), which LIKE '%Samsara Log ID: <id>%' matches when what
\* follows "Samsara Log ID: " begins with <id>
StartsWith(text, log_id) ==
    /\ Len(Chars(log_id)) <= Len(Chars(text))
    /\ SubSeq(Chars(text), 1, Len(Chars(log_id))) = Chars(log_id)

\* lines 759-762: details LIKE '%Samsara Log ID: <id>%' over the entries the
\* session can see: the committed ones and those it flushed.  A log without
\* an id gives the pattern '%Samsara Log ID: %' and is written as "Unknown".
ExistingLog(s, log) ==
    \E entry \in {activity_logs[k] : k \in DOMAIN activity_logs}
                    \cup {s.new_logs[k] : k \in 1..s.flushed} :
        /\ entry.entity_type = "SAMSARA_MAINTENANCE"
        /\ entry.details.log_id # ""
        /\ log.id # "" => StartsWith(entry.details.log_id, log.id)

\* lines 797-808
SyncedAssignment(vehicle, schedule_id, schedule, log_date) ==
    [vehicle_id |-> vehicle.vehicle_id, schedule_id |-> schedule_id,
     last_performed_date |-> log_date,
     last_performed_mileage |-> vehicle.mileage,
     last_performed_engine_hours |-> vehicle.engine_hours,
     next_due_date |-> log_date + (IF Truthy(schedule.time_interval_days)
                                    THEN schedule.time_interval_days ELSE 90),
     next_due_mileage |-> NULL, next_due_engine_hours |-> NULL]

\* lines 812-819: the attributes set on an existing assignment
SyncedAttrs(vehicle, schedule, log_date) ==
    LET last_performed ==
            [last_performed_date |-> log_date,
             last_performed_mileage |-> vehicle.mileage,
             last_performed_engine_hours |-> vehicle.engine_hours]
    IN  IF schedule.is_time_based /\ Truthy(schedule.time_interval_days)
        THEN [f \in DOMAIN last_performed \cup {"next_due_date"} |->
                 IF f = "next_due_date"
                 THEN log_date + schedule.time_interval_days
                 ELSE last_performed[f]]
        ELSE last_performed

\* lines 768-833: one defect of a log.  s is the task with its session;
\* s.error is set when db.flush() raised.
ProcessDefect(s, vehicle, log, log_date, defect) ==
    LET maintenance_name == MaintenanceName(defect)
        found == MatchingSchedule(s, maintenance_name)
        s1 == IF found = NULL
              THEN [s EXCEPT !.new_schedules = Append(@, AutoSchedule(maintenance_name)),
                             !.flushed = Len(s.new_logs)]
              ELSE s
        schedule_id == IF found = NULL THEN -1 - Len(s1.new_schedules) ELSE found
        schedule == SessionSchedule(s1, schedule_id)
        assignment == IF schedule_id < 0 THEN NULL
                      ELSE ExistingAssignment(vehicle.vehicle_id, schedule_id)
        entry == ActivityLog("SYNC", "SAMSARA_MAINTENANCE", assignment,
                             Details(TRUE, IF log.id = "" THEN "Unknown" ELSE log.id))
    IN  IF found = NULL /\ HasNullEntity(s)
        THEN [s EXCEPT !.error = TRUE]
        ELSE IF assignment = NULL
        THEN [s1 EXCEPT
                 !.new_assignments =
                     Append(@, SyncedAssignment(vehicle, schedule_id, schedule, log_date)),
                 !.new_logs = Append(@, entry)]
        ELSE LET row == SessionAssignment(s1, assignment)
                 newer == row.last_performed_date = NULL
                              \/ log_date > row.last_performed_date
                 attrs == SyncedAttrs(vehicle, schedule, log_date)
                 old == IF assignment \in DOMAIN s1.dirty THEN s1.dirty[assignment]
                        ELSE <<>>
                 merged == [f \in DOMAIN old \cup DOMAIN attrs |->
                               IF f \in DOMAIN attrs THEN attrs[f] ELSE old[f]]
             IN  [s1 EXCEPT
                     !.dirty = IF newer
                               THEN [a \in DOMAIN @ \cup {assignment} |->
                                        IF a = assignment THEN merged ELSE @[a]]
                               ELSE @,
                     !.new_logs = Append(@, entry)]

RECURSIVE ProcessDefects(_, _, _, _, _)
\* line 768: for defect in log["defects"], until a statement raises
ProcessDefects(s, vehicle, log, log_date, defects) ==
    IF defects = <<>> \/ s.error THEN s
    ELSE ProcessDefects(ProcessDefect(s, vehicle, log, log_date, Head(defects)),
                        vehicle, log, log_date, Tail(defects))

\* lines 750-841: one log of the vehicle
ProcessLog(s, vehicle, log) ==
    LET log_date == IF log.inspectionTimeMs # NULL THEN log.inspectionTimeMs ELSE now
    IN  IF log.defects = <<>> \/ ExistingLog(s, log) THEN s
        ELSE LET done == ProcessDefects(s, vehicle, log, log_date, log.defects)
             IN  IF done.error THEN done ELSE [done EXCEPT !.results = @ + 1]

RECURSIVE ProcessLogs(_, _, _)
\* line 750: for log in logs.get("dvirs", [])
ProcessLogs(s, vehicle, dvirs) ==
    IF dvirs = <<>> \/ s.error THEN s
    ELSE ProcessLogs(ProcessLog(s, vehicle, Head(dvirs)), vehicle, Tail(dvirs))

\* what db.commit() writes: the flushed templates, the changed attributes of
\* loaded assignments, the new assignments (a template flushed by the
\* session gets its place in the table) and the audit entries
CommitSession(s, entries) ==
    LET place(schedule_id) == IF schedule_id < 0
                              THEN Len(schedules) + (-1 - schedule_id)
                              ELSE schedule_id
    IN  [schedules |-> schedules \o s.new_schedules,
         assignments |->
            [a \in DOMAIN assignments |-> SessionAssignment(s, a)]
            \o [k \in DOMAIN s.new_assignments |->
                   [s.new_assignments[k] EXCEPT !.schedule_id = place(@)]],
         activity_logs |-> activity_logs \o s.new_logs \o entries]

\* the tables as they are, with the entries of a session that had nothing
\* else to write
OnlyEntries(entries) ==
    [schedules |-> schedules, assignments |-> assignments,
     activity_logs |-> activity_logs \o entries]

\* lines 843-856, and 858-868 when the commit raised: the commit of line 843
\* rolls the session back when it raises, and the except clause then commits
\* its ERROR entry alone
FinishLogSync(s) ==
    IF HasNullEntity(s)
    THEN [pc |-> "failed",
          db |-> OnlyEntries(<<ActivityLog("ERROR", "SYSTEM", 0, Details(TRUE, ""))>>)]
    ELSE [pc |-> "done",
          db |-> CommitSession(s, <<ActivityLog("SYNC_COMPLETE",
                     "SAMSARA_MAINTENANCE", 0, Details(TRUE, ""))>>)]

\* lines 858-868 when a statement of the loop raised: the except clause adds
\* an ERROR entry and commits the session as it is.  After a failed
\* db.flush() the session refuses the commit, and a session holding an entry
\* without entity_id fails it: the task ends with that exception and nothing
\* is written.
ExceptLogSync(s) ==
    IF s.error \/ HasNullEntity(s)
    THEN [pc |-> "crashed", db |-> OnlyEntries(<<>>)]
    ELSE [pc |-> "failed",
          db |-> CommitSession(s, <<ActivityLog("ERROR", "SYSTEM", 0,
                                                  Details(TRUE, ""))>>)]

\* the task has ended: its session is gone
EndLogSync(s, outcome) ==
    /\ ml' = [IdleLogRun EXCEPT !.pc = outcome.pc, !.runs = s.runs,
                                !.results = s.results]
    /\ schedules' = outcome.db.schedules
    /\ assignments' = outcome.db.assignments
    /\ activity_logs' = outcome.db.activity_logs

\* the loop goes on with the next vehicle, or is over
NextLogVehicle(s) ==
    IF s.i < Len(s.vehicles)
    THEN /\ ml' = [s EXCEPT !.i = @ + 1]
         /\ UNCHANGED <<schedules, assignments, activity_logs>>
    ELSE EndLogSync(s, FinishLogSync(s))

\* lines 724-726: the vehicles that have a samsara_id, as loaded when the
\* task starts
SamsaraVehicles ==
    LET ids == {v \in DOMAIN vehicles : vehicles[v].samsara_id # ""}
        row(v) == [vehicle_id |-> v, mileage |-> vehicles[v].mileage,
                   engine_hours |-> vehicles[v].engine_hours]
        RECURSIVE list(_)
        list(v) == IF v > Len(vehicles) THEN <<>>
                   ELSE IF v \in ids THEN <<row(v)>> \o list(v + 1)
                   ELSE list(v + 1)
    IN  list(1)

\* sync_samsara_maintenance (lines 672-691) adds the task; lines 693-738:
\* the task loads the vehicles and awaits the provider's answer for the
\* first one (with SAMSARA_API_KEY configured)
sync_samsara_maintenance_logs_start ==
    /\ ml.pc \in {"idle", "done", "failed", "crashed"}
    /\ ml.runs < MaxLogRuns
    /\ LET s == [IdleLogRun EXCEPT !.pc = "get", !.vehicles = SamsaraVehicles,
                                   !.i = 1, !.runs = ml.runs + 1]
       IN  IF s.vehicles = <<>>
           THEN EndLogSync(s, FinishLogSync(s))
           ELSE /\ ml' = s
                /\ UNCHANGED <<schedules, assignments, activity_logs>>
    /\ last' = [NoStep EXCEPT !.op = "logs_start"]
    /\ UNCHANGED <<parts_inventory, fetch, deleted, vehicles, diagnostic_codes, work_orders, now, bg, resolves>>

\* lines 731-841: the provider has answered for the vehicle in hand: a
\* network exception (status 0), a response that is not 200, or the logs
sync_samsara_maintenance_logs_vehicle(answer) ==
    /\ ml.pc = "get"
    /\ LET vehicle == ml.vehicles[ml.i]
       IN  /\ IF answer.status = 0
              THEN EndLogSync(ml, ExceptLogSync(ml))
              ELSE IF answer.status # 200
              THEN NextLogVehicle([ml EXCEPT !.results = @ + 1])
              ELSE LET s == ProcessLogs(ml, vehicle, answer.dvirs)
                   IN  IF s.error THEN EndLogSync(s, ExceptLogSync(s))
                       ELSE NextLogVehicle(s)
           /\ last' = [NoStep EXCEPT !.op = "logs_vehicle",
                          !.id = vehicle.vehicle_id, !.status = answer.status,
                          !.body = answer.dvirs]
    /\ UNCHANGED <<parts_inventory, fetch, deleted, vehicles, diagnostic_codes, work_orders, now, bg, resolves>>

\* ------------------------------------------------ the batched fetches
\* the other variables of a fetch step
fetchOthers == <<vehicles, diagnostic_codes, activity_logs, schedules,
                 assignments, work_orders, now, bg, ml, resolves, deleted,
                 parts_inventory>>

\* lines 94-133, 196-235, 285-330: a caller names n types (none: the default
\* ones) and the function sends the request of its first batch
FetchStart(fn, vehicle_ids, n) ==
    LET types == IF n = 0 THEN DefaultTypes ELSE RequestedTypes(n)
        batches == Batches(types)
    IN  /\ fetch.pc \in {"idle", "returned", "raised"}
        /\ fetch' = [fn |-> fn, pc |-> "get", types |-> types,
                     vehicle_ids |-> vehicle_ids, batches |-> batches,
                     calls |-> <<batches[1]>>, answers |-> <<>>,
                     result |-> <<>>]
        /\ last' = [NoStep EXCEPT !.op = "fetch_start"]
        /\ UNCHANGED fetchOthers

\* the provider's answer to the request in hand: status 0 stands for a
\* network exception; data names, in the provider's order, the vehicles it
\* returns a record for
FetchAnswer(answer) ==
    LET batch == fetch.batches[Len(fetch.answers) + 1]
    IN  [status |-> answer.status,
         data |-> [i \in DOMAIN answer.data |-> StatsRecord(answer.data[i], batch)]]

\* the request of the next batch, if there is one
NextCall(answers) ==
    IF Len(answers) < Len(fetch.batches)
    THEN Append(fetch.calls, fetch.batches[Len(answers) + 1])
    ELSE fetch.calls

fetch_vehicle_stats(vehicle_id, n) == FetchStart("stats", <<vehicle_id>>, n)

\* lines 122-172: one batch of fetch_vehicle_stats.  A response that is not
\* 200 and an exception are logged and the loop continues (142-146,
\* 159-162); data[0] of a success is merged (152-155); after the last batch
\* the function raises if nothing was merged (165-170) and returns
\* combined_stats otherwise.
fetch_vehicle_stats_batch(answer) ==
    LET response == FetchAnswer(answer)
        answers == Append(fetch.answers, response)
        combined_stats ==
            IF response.status = 200 /\ Len(response.data) > 0
            THEN Update(fetch.result, response.data[1])
            ELSE fetch.result
        pc == IF Len(answers) < Len(fetch.batches) THEN "get"
              ELSE IF DOMAIN combined_stats = {} THEN "raised"
              ELSE "returned"
    IN  /\ fetch.fn = "stats" /\ fetch.pc = "get"
        /\ fetch' = [fetch EXCEPT !.pc = pc, !.answers = answers,
                                  !.calls = NextCall(answers),
                                  !.result = combined_stats]
        /\ last' = [NoStep EXCEPT !.op = "fetch_batch", !.status = answer.status]
        /\ UNCHANGED fetchOthers

\* lines 224-257 and 317-352: one batch of fetch_vehicle_stats_feed or of
\* fetch_vehicle_stats_history.  A response that is not 200 raises
\* HTTPException (237-242, 332-337) and an exception of client.get reaches
\* the same except clause (258-263, 353-358): the function raises and
\* returns nothing.  A success is merged by position.
FeedBatch(fn, answer) ==
    LET response == FetchAnswer(answer)
        answers == Append(fetch.answers, response)
        failed == response.status # 200
        pc == IF failed THEN "raised"
              ELSE IF Len(answers) < Len(fetch.batches) THEN "get"
              ELSE "returned"
    IN  /\ fetch.fn = fn /\ fetch.pc = "get"
        /\ fetch' = [fetch EXCEPT
                        !.pc = pc, !.answers = answers,
                        !.calls = IF failed THEN @ ELSE NextCall(answers),
                        !.result = IF failed THEN <<>>
                                   ELSE MergeByIndex(@, response.data)]
        /\ last' = [NoStep EXCEPT !.op = "fetch_batch", !.status = answer.status]
        /\ UNCHANGED fetchOthers

fetch_vehicle_stats_feed(vehicle_ids, n) == FetchStart("feed", vehicle_ids, n)

fetch_vehicle_stats_feed_batch(answer) == FeedBatch("feed", answer)

fetch_vehicle_stats_history(vehicle_ids, n) == FetchStart("history", vehicle_ids, n)

fetch_vehicle_stats_history_batch(answer) == FeedBatch("history", answer)

\* ------------------------------------------------------ the sync status
\* samsara.py lines 650-654: the entries get_sync_status reads: action and
\* entity_type in its lists and details LIKE '%Samsara%'
IsSyncLog(entry) ==
    /\ entry.action \in {"CREATE", "UPDATE", "SYNC", "SYNC_COMPLETE", "ERROR"}
    /\ entry.entity_type \in {"VEHICLE", "SYSTEM", "SAMSARA_MAINTENANCE"}
    /\ entry.details.samsara

\* samsara.py lines 656-682: the status get_sync_status reports for a log
\* table; the latest entry by created_at is the last one written
SyncStatus(logs) ==
    LET sync_logs == SelectSeq(logs, IsSyncLog)
        latest_sync == sync_logs[Len(sync_logs)]
    IN  IF Len(sync_logs) = 0 THEN "unknown"
        ELSE IF latest_sync.action = "ERROR" THEN "error"
        ELSE IF latest_sync.action = "SYNC_COMPLETE" THEN "completed"
        ELSE "in_progress"

\* samsara.py get_sync_status: reads, writes nothing
get_sync_status ==
    /\ last' = [NoStep EXCEPT !.op = "get_sync_status", !.status = 200,
                              !.response = [status |-> SyncStatus(activity_logs)]]
    /\ UNCHANGED <<fetchOthers, activity_logs, fetch>>

\* samsara.py lines 693-697: action SYNC, entity_type SYSTEM and details
\* LIKE '%Starting Samsara sync operation%'.  The start entry of
\* background_sync_samsara (lines 730-736) is the only SYNC/SYSTEM entry the
\* code writes with "Samsara" in its details.
IsStartLog(entry) ==
    /\ entry.action = "SYNC"
    /\ entry.entity_type = "SYSTEM"
    /\ entry.details.samsara

\* lines 706-712, and 701-702 for the rewritten start entry: the details
\* "Manually reset sync status..." do not hold the word "Samsara"
ResetLog == ActivityLog("SYNC_COMPLETE", "SYSTEM", 0, Details(FALSE, ""))

\* samsara.py reset_sync_status: the latest start entry, if there is one,
\* is rewritten (699-703) and a reset entry is added (706-714)
reset_sync_status ==
    LET starts == {i \in DOMAIN activity_logs : IsStartLog(activity_logs[i])}
        in_progress_log == CHOOSE i \in starts : \A j \in starts : j <= i
        marked == IF starts = {} THEN activity_logs
                  ELSE [activity_logs EXCEPT ![in_progress_log] = ResetLog]
        resets == {i \in DOMAIN activity_logs : activity_logs[i] = ResetLog}
    IN  /\ Cardinality(resets) < MaxResets
        /\ activity_logs' = Append(marked, ResetLog)
        /\ last' = [NoStep EXCEPT !.op = "reset_sync_status", !.status = 200,
                                  !.response = [status |-> "completed"]]
        /\ UNCHANGED <<parts_inventory, fetch, deleted, vehicles, diagnostic_codes, schedules,
                       assignments, work_orders, now, bg, ml, resolves>>

\* ------------------------------------------------------- specifications
\* the operator requests a sync only when no run is in flight
NoSyncInFlight == \A r \in SyncRuns : bg[r].pc \in {"idle", "done", "failed", "crashed"}

\* Telemetry: the provider reports odometer and engine hours for one
\* vehicle id; its diagnostic lists are empty
TelemetryVehicles == [id : {"s1"}, odometerMeters : OdometerMeters] \cup {NoVehicle}

NextTelemetry ==
    \/ \E r \in SyncRuns : NoSyncInFlight /\ background_sync_samsara_start(r)
    \/ \E r \in SyncRuns, answer \in VehicleAnswers :
            background_sync_samsara_fetch(r, answer)
    \/ \E r \in SyncRuns, vehicle \in TelemetryVehicles, stats \in StatsAnswers :
            background_sync_samsara_vehicle(r, vehicle, stats)
    \/ \E r \in SyncRuns, answer \in {CodesFailure, [status |-> 200, data |-> <<>>]} :
            background_sync_samsara_codes(r, answer)

SpecTelemetry == Init /\ [][NextTelemetry]_vars

\* Diagnostics: the provider reports diagnostic events; odometer and engine
\* hours are not reported
DiagnosticVehicles == {[id |-> "s1", odometerMeters |-> NULL]}

NextDiagnostics ==
    \/ \E r \in SyncRuns : NoSyncInFlight /\ background_sync_samsara_start(r)
    \/ \E r \in SyncRuns, answer \in VehicleAnswers :
            background_sync_samsara_fetch(r, answer)
    \/ \E r \in SyncRuns, vehicle \in DiagnosticVehicles :
            background_sync_samsara_vehicle(r, vehicle, StatsFailure)
    \/ \E r \in SyncRuns, answer \in CodeAnswers :
            background_sync_samsara_codes(r, answer)
    \/ \E row \in BagToSet(diagnostic_codes) : resolve_diagnostic_code(row)

SpecDiagnostics == Init /\ [][NextDiagnostics]_vars

\* Completion: one vehicle known to the provider as s1, one template with a
\* mileage interval, assigned and completed
VehicleBodies ==
    [vin : {<<"", "V1">>}, samsara_id : {"s1"}, mileage : {NULL, 50000},
     engine_hours : {NULL, 15}]

OilChange ==
    [name |-> <<"oil", "change">>, is_mileage_based |-> TRUE,
     mileage_interval |-> 5000, is_time_based |-> FALSE,
     time_interval_days |-> NULL, is_engine_hours_based |-> FALSE,
     engine_hours_interval |-> NULL]

AssignmentBodies ==
    [vehicle_id : {1}, schedule_id : {1}, last_performed_date : {NULL},
     last_performed_mileage : {NULL, 48000}, last_performed_engine_hours : {NULL}]

CompletionValues ==
    [assignment_id : {1}, completion_date : {NULL, 1},
     current_mileage : {NULL, 49000, 51000}, current_engine_hours : {NULL, 20}]

\* a request body with the values of c and, when asked for, the key
\* create_work_order
CompletionBody(c, with_work_order) ==
    [f \in DOMAIN c \cup (IF with_work_order THEN {"create_work_order"} ELSE {}) |->
        IF f = "create_work_order" THEN TRUE ELSE c[f]]

CompletionBodies ==
    {CompletionBody(c, w) : c \in CompletionValues, w \in BOOLEAN}

NextComplete ==
    \/ \E vehicle \in VehicleBodies : create_vehicle(vehicle)
    \/ create_maintenance_schedule(OilChange)
    \/ \E assignment \in AssignmentBodies : assign_maintenance_schedule(assignment)
    \/ \E body \in CompletionBodies : complete_maintenance(1, body)

SpecComplete == Init /\ [][NextComplete]_vars

\* Interleaving: completions of the vehicle's assignment between the steps
\* of telemetry sync runs; the vehicle is stored with 50000 miles and the
\* provider reports 49000 or 51000 miles
InterleaveVehicle ==
    [vin |-> <<"", "V1">>, samsara_id |-> "s1", mileage |-> 50000,
     engine_hours |-> 15]

InterleaveAssignment ==
    [vehicle_id |-> 1, schedule_id |-> 1, last_performed_date |-> NULL,
     last_performed_mileage |-> 48000, last_performed_engine_hours |-> NULL]

InterleaveCompletions ==
    {CompletionBody([assignment_id |-> 1, completion_date |-> NULL,
                     current_mileage |-> 51000, current_engine_hours |-> 20], w) :
        w \in BOOLEAN}

InterleaveReports == [id : {"s1"}, odometerMeters : {78858000, 82077000}]

NextInterleave ==
    \/ create_vehicle(InterleaveVehicle)
    \/ create_maintenance_schedule(OilChange)
    \/ assign_maintenance_schedule(InterleaveAssignment)
    \/ \E body \in InterleaveCompletions : complete_maintenance(1, body)
    \/ \E r \in SyncRuns : NoSyncInFlight /\ background_sync_samsara_start(r)
    \/ \E r \in SyncRuns, answer \in VehicleAnswers :
            background_sync_samsara_fetch(r, answer)
    \/ \E r \in SyncRuns, vehicle \in InterleaveReports :
            background_sync_samsara_vehicle(r, vehicle,
                                            [status |-> 200, engineHours |-> 10])
    \/ \E r \in SyncRuns :
            background_sync_samsara_codes(r, [status |-> 200, data |-> <<>>])

SpecInterleave == Init /\ [][NextInterleave]_vars

\* the provider's inspection logs: one log with up to MaxDefects defects,
\* whose comments name the template "oil change" in part or another task
Defects == [comment : {<<"oil">>, <<"brakes">>}, defectType : {"engine"}]

Dvirs ==
    [id : {"L1"}, inspectionTimeMs : {1},
     defects : SeqUpTo(Defects, MaxDefects) \ {<<>>}]

LogsException == [status |-> 0, dvirs |-> <<>>]
LogsFailure == [status |-> 500, dvirs |-> <<>>]
LogAnswers ==
    {LogsException, LogsFailure}
        \cup [status : {200}, dvirs : {<<>>} \cup {<<log>> : log \in Dvirs}]

\* Assignment: assign requests for the one pair between the steps of
\* maintenance-log sync runs
NextAssign ==
    \/ create_vehicle(InterleaveVehicle)
    \/ create_maintenance_schedule(OilChange)
    \/ \E assignment \in AssignmentBodies : assign_maintenance_schedule(assignment)
    \/ sync_samsara_maintenance_logs_start
    \/ \E answer \in LogAnswers : sync_samsara_maintenance_logs_vehicle(answer)

SpecAssign == Init /\ [][NextAssign]_vars

\* Due state: every operation that writes an assignment or its template
AssignmentUpdates ==
    {[last_performed_mileage |-> 49000], [next_due_mileage |-> 60000]}

ScheduleUpdates == {[mileage_interval |-> 3000]}

OilLog ==
    [id |-> "L1", inspectionTimeMs |-> 1,
     defects |-> <<[comment |-> <<"oil">>, defectType |-> "engine"]>>]

NextDue ==
    \/ Tick
    \/ create_vehicle(InterleaveVehicle)
    \/ create_maintenance_schedule(OilChange)
    \/ assign_maintenance_schedule(InterleaveAssignment)
    \/ \E update \in AssignmentUpdates : update_maintenance_assignment(1, update)
    \/ \E update \in ScheduleUpdates : update_maintenance_schedule(1, update)
    \/ \E body \in InterleaveCompletions : complete_maintenance(1, body)
    \/ sync_samsara_maintenance_logs_start
    \/ sync_samsara_maintenance_logs_vehicle([status |-> 200, dvirs |-> <<OilLog>>])

SpecDue == Init /\ [][NextDue]_vars

\* Batch: both reconciliation tasks over a fleet of two vehicles, the
\* provider failing or answering without data
BatchVehicles == [id : {"s1", "s2"}, odometerMeters : {NULL}]

NextBatch ==
    \/ \E r \in SyncRuns : NoSyncInFlight /\ background_sync_samsara_start(r)
    \/ \E r \in SyncRuns, answer \in VehicleAnswers :
            background_sync_samsara_fetch(r, answer)
    \/ \E r \in SyncRuns, vehicle \in BatchVehicles :
            background_sync_samsara_vehicle(r, vehicle, StatsFailure)
    \/ \E r \in SyncRuns, answer \in {CodesFailure, [status |-> 200, data |-> <<>>]} :
            background_sync_samsara_codes(r, answer)
    \/ NoSyncInFlight /\ sync_samsara_maintenance_logs_start
    \/ \E answer \in {LogsException, LogsFailure, [status |-> 200, dvirs |-> <<>>]} :
            sync_samsara_maintenance_logs_vehicle(answer)

SpecBatch == Init /\ [][NextBatch]_vars

\* Fetches: the three batched stats fetches, for one vehicle (snapshot) or
\* two (feed, history); the provider fails, or answers for the vehicles it
\* chooses in the order it chooses
FetchVehicles == {"s1", "s2"}

\* sequences of distinct vehicles
Orders(S) ==
    {o \in SeqUpTo(S, Cardinality(S)) :
        \A i, j \in DOMAIN o : i # j => o[i] # o[j]}

BatchAnswers(S) ==
    {[status |-> 0, data |-> <<>>], [status |-> 500, data |-> <<>>]}
        \cup [status : {200}, data : Orders(S)]

NextFetch ==
    \/ \E n \in 0..MaxTypes : fetch_vehicle_stats("s1", n)
    \/ \E answer \in BatchAnswers({"s1"}) : fetch_vehicle_stats_batch(answer)
    \/ \E n \in 0..MaxTypes : fetch_vehicle_stats_feed(<<"s1", "s2">>, n)
    \/ \E answer \in BatchAnswers(FetchVehicles) :
            fetch_vehicle_stats_feed_batch(answer)
    \/ \E n \in 0..MaxTypes : fetch_vehicle_stats_history(<<"s1", "s2">>, n)
    \/ \E answer \in BatchAnswers(FetchVehicles) :
            fetch_vehicle_stats_history_batch(answer)

SpecFetch == Init /\ [][NextFetch]_vars

\* Templates: templates created and updated through the API with intervals
\* that are unset, zero, negative or positive, and templates the log sync
\* creates for a defect that matches none
ScheduleBodies ==
    [name : {<<"oil", "change">>}, is_mileage_based : BOOLEAN,
     mileage_interval : {NULL, 0, -5000, 5000}, is_time_based : BOOLEAN,
     time_interval_days : {NULL, 90}, is_engine_hours_based : {FALSE},
     engine_hours_interval : {NULL}]

TemplateUpdates ==
    {[mileage_interval |-> -3000], [mileage_interval |-> 0],
     [is_mileage_based |-> FALSE], [is_time_based |-> TRUE]}

NextTemplates ==
    \/ create_vehicle(InterleaveVehicle)
    \/ \E schedule \in ScheduleBodies : create_maintenance_schedule(schedule)
    \/ \E update \in TemplateUpdates : update_maintenance_schedule(1, update)
    \/ sync_samsara_maintenance_logs_start
    \/ \E answer \in LogAnswers : sync_samsara_maintenance_logs_vehicle(answer)

SpecTemplates == Init /\ [][NextTemplates]_vars

\* Deletion: templates and assignments are created and deleted in any order
NextDelete ==
    \/ \E vehicle \in VehicleBodies : create_vehicle(vehicle)
    \/ create_maintenance_schedule(OilChange)
    \/ \E assignment \in AssignmentBodies : assign_maintenance_schedule(assignment)
    \/ \E schedule_id \in 1..MaxSchedules : delete_maintenance_schedule(schedule_id)
    \/ \E assignment_id \in 1..(MaxDeletes + 1) :
            delete_maintenance_assignment(assignment_id)

SpecDelete == Init /\ [][NextDelete]_vars

\* Requests: sync requests arrive at any time, also while a run is in
\* flight
NextRequests ==
    \/ \E r \in SyncRuns : background_sync_samsara_start(r)
    \/ \E r \in SyncRuns, answer \in VehicleAnswers :
            background_sync_samsara_fetch(r, answer)
    \/ \E r \in SyncRuns, vehicle \in DiagnosticVehicles :
            background_sync_samsara_vehicle(r, vehicle, StatsFailure)
    \/ \E r \in SyncRuns, answer \in {CodesFailure, [status |-> 200, data |-> <<>>]} :
            background_sync_samsara_codes(r, answer)

SpecRequests == Init /\ [][NextRequests]_vars

\* Status: the operator reads and resets the sync status at any time,
\* also while a run is between two vehicles
NextStatus ==
    \/ \E r \in SyncRuns : NoSyncInFlight /\ background_sync_samsara_start(r)
    \/ \E r \in SyncRuns, answer \in VehicleAnswers :
            background_sync_samsara_fetch(r, answer)
    \/ \E r \in SyncRuns, vehicle \in DiagnosticVehicles :
            background_sync_samsara_vehicle(r, vehicle, StatsFailure)
    \/ \E r \in SyncRuns, answer \in {CodesFailure, [status |-> 200, data |-> <<>>]} :
            background_sync_samsara_codes(r, answer)
    \/ reset_sync_status
    \/ get_sync_status

SpecStatus == Init /\ [][NextStatus]_vars

\* ---------------------------------------------------------------------
\* The due views: dashboard.py get_dashboard_summary and
\* get_maintenance_due, maintenance.py get_vehicle_maintenance_schedules.
\* They read the tables and change nothing. Dates are whole days.

\* the inner joins of the three queries: an assignment row is seen with its
\* vehicle and its template
Joined ==
    {a \in AssignmentIds : /\ assignments[a].vehicle_id \in DOMAIN vehicles
                           /\ assignments[a].schedule_id \in ScheduleIds}

\* a SQL comparison with a NULL operand is not true
SqlLe(a, b) == a # NULL /\ b # NULL /\ a <= b

SqlLt(a, b) == a # NULL /\ b # NULL /\ a < b

\* dashboard.py lines 62-71 and 102-118: the filter of both dashboard views
IsDue(a) ==
    LET schedule == assignments[a]
        vehicle == vehicles[schedule.vehicle_id]
        maintenance == schedules[schedule.schedule_id]
    IN  \/ SqlLe(schedule.next_due_date, now)
        \/ /\ maintenance.is_mileage_based
           /\ SqlLe(schedule.next_due_mileage, vehicle.mileage)
        \/ /\ maintenance.is_engine_hours_based
           /\ SqlLe(schedule.next_due_engine_hours, vehicle.engine_hours)

\* dashboard.py lines 51-72
maintenance_due_count == Cardinality({a \in Joined : IsDue(a)})

\* dashboard.py lines 124-138: the mileage block, then the date block, each
\* assigning the one variable priority
Priority(a) ==
    LET schedule == assignments[a]
        vehicle == vehicles[schedule.vehicle_id]
        maintenance == schedules[schedule.schedule_id]
        miles_overdue == vehicle.mileage - schedule.next_due_mileage
        days_overdue == now - schedule.next_due_date
        by_mileage ==
            IF /\ maintenance.is_mileage_based
               /\ Truthy(vehicle.mileage) /\ Truthy(schedule.next_due_mileage)
            THEN IF miles_overdue > 1000 THEN "high"
                 ELSE IF miles_overdue > 500 THEN "medium"
                 ELSE "low"
            ELSE "low"
    IN  IF maintenance.is_time_based /\ schedule.next_due_date # NULL
        THEN IF days_overdue > 30 THEN "high"
             ELSE IF days_overdue > 14 THEN "medium"
             ELSE by_mileage
        ELSE by_mileage

\* dashboard.py lines 141-146: the comparison of line 143 raises TypeError
\* when the vehicle has no mileage
DueMilesRaises(a) ==
    LET schedule == assignments[a]
    IN  /\ schedules[schedule.schedule_id].is_mileage_based
        /\ Truthy(schedule.next_due_mileage)
        /\ vehicles[schedule.vehicle_id].mileage = NULL

\* dashboard.py lines 141-146
DueMiles(a) ==
    LET schedule == assignments[a]
        vehicle == vehicles[schedule.vehicle_id]
    IN  IF /\ schedules[schedule.schedule_id].is_mileage_based
           /\ Truthy(schedule.next_due_mileage)
        THEN IF vehicle.mileage > schedule.next_due_mileage THEN 0
             ELSE schedule.next_due_mileage - vehicle.mileage
        ELSE NULL

\* dashboard.py lines 155-164; id, which the response does not carry, names
\* the assignment the item was made from
DueItem(a) ==
    [id |-> a, vehicle_id |-> assignments[a].vehicle_id,
     service |-> schedules[assignments[a].schedule_id].name,
     due_miles |-> DueMiles(a), due_date |-> assignments[a].next_due_date,
     priority |-> Priority(a)]

\* the rows of a query in the order of their ids
RECURSIVE RowsById(_)
RowsById(S) ==
    IF S = {} THEN <<>>
    ELSE LET first == CHOOSE a \in S : \A b \in S : a <= b
         IN  <<first>> \o RowsById(S \ {first})

\* dashboard.py get_maintenance_due: 500 when an item raises
get_maintenance_due ==
    LET maintenance_due == RowsById({a \in Joined : IsDue(a)})
        raises == \E i \in DOMAIN maintenance_due : DueMilesRaises(maintenance_due[i])
    IN  /\ last' = [NoStep EXCEPT !.op = "get_maintenance_due",
                      !.status = IF raises THEN 500 ELSE 200,
                      !.response = IF raises THEN <<>>
                                   ELSE [i \in DOMAIN maintenance_due |->
                                            DueItem(maintenance_due[i])]]
        /\ UNCHANGED <<fetchOthers, fetch>>

\* dashboard.py get_dashboard_summary
get_dashboard_summary ==
    /\ last' = [NoStep EXCEPT !.op = "get_dashboard_summary", !.status = 200,
                  !.response = [total_vehicles |-> Len(vehicles),
                                maintenance_due_count |-> maintenance_due_count]]
    /\ UNCHANGED <<fetchOthers, fetch>>

\* maintenance.py lines 257-284: the due_soon filter
DueSoonFilter(a) ==
    LET vehicle_schedule == assignments[a]
        vehicle == vehicles[vehicle_schedule.vehicle_id]
        schedule == schedules[vehicle_schedule.schedule_id]
    IN  \/ /\ schedule.is_time_based
           /\ SqlLt(now, vehicle_schedule.next_due_date)
           /\ SqlLe(vehicle_schedule.next_due_date, now + 7)
        \/ /\ schedule.is_mileage_based
           /\ vehicle_schedule.next_due_mileage # NULL /\ vehicle.mileage # NULL
           /\ vehicle_schedule.next_due_mileage - vehicle.mileage <= 500
           /\ vehicle_schedule.next_due_mileage > vehicle.mileage
        \/ /\ schedule.is_engine_hours_based
           /\ vehicle_schedule.next_due_engine_hours # NULL
           /\ vehicle.engine_hours # NULL
           /\ vehicle_schedule.next_due_engine_hours - vehicle.engine_hours <= 50
           /\ vehicle_schedule.next_due_engine_hours > vehicle.engine_hours

\* maintenance.py lines 287-308: the overdue filter
OverdueFilter(a) ==
    LET vehicle_schedule == assignments[a]
        vehicle == vehicles[vehicle_schedule.vehicle_id]
        schedule == schedules[vehicle_schedule.schedule_id]
    IN  \/ /\ schedule.is_time_based
           /\ SqlLt(vehicle_schedule.next_due_date, now)
        \/ /\ schedule.is_mileage_based
           /\ SqlLt(vehicle_schedule.next_due_mileage, vehicle.mileage)
        \/ /\ schedule.is_engine_hours_based
           /\ SqlLt(vehicle_schedule.next_due_engine_hours, vehicle.engine_hours)

\* maintenance.py lines 318-339: is_overdue of a response item
is_overdue(a) ==
    LET vehicle_schedule == assignments[a]
        vehicle == vehicles[vehicle_schedule.vehicle_id]
        schedule == schedules[vehicle_schedule.schedule_id]
    IN  \/ /\ schedule.is_time_based /\ vehicle_schedule.next_due_date # NULL
           /\ vehicle_schedule.next_due_date < now
        \/ /\ schedule.is_mileage_based
           /\ Truthy(vehicle_schedule.next_due_mileage) /\ Truthy(vehicle.mileage)
           /\ vehicle_schedule.next_due_mileage < vehicle.mileage
        \/ /\ schedule.is_engine_hours_based
           /\ Truthy(vehicle_schedule.next_due_engine_hours)
           /\ Truthy(vehicle.engine_hours)
           /\ vehicle_schedule.next_due_engine_hours < vehicle.engine_hours

\* maintenance.py lines 318-339: is_due_soon of a response item, the elif
\* branch of each dimension
is_due_soon(a) ==
    LET vehicle_schedule == assignments[a]
        vehicle == vehicles[vehicle_schedule.vehicle_id]
        schedule == schedules[vehicle_schedule.schedule_id]
    IN  \/ /\ schedule.is_time_based /\ vehicle_schedule.next_due_date # NULL
           /\ ~(vehicle_schedule.next_due_date < now)
           /\ vehicle_schedule.next_due_date <= now + 7
        \/ /\ schedule.is_mileage_based
           /\ Truthy(vehicle_schedule.next_due_mileage) /\ Truthy(vehicle.mileage)
           /\ ~(vehicle_schedule.next_due_mileage < vehicle.mileage)
           /\ vehicle_schedule.next_due_mileage - vehicle.mileage <= 500
        \/ /\ schedule.is_engine_hours_based
           /\ Truthy(vehicle_schedule.next_due_engine_hours)
           /\ Truthy(vehicle.engine_hours)
           /\ ~(vehicle_schedule.next_due_engine_hours < vehicle.engine_hours)
           /\ vehicle_schedule.next_due_engine_hours - vehicle.engine_hours <= 50

\* maintenance.py line 311: order_by(next_due_date.asc().nullslast())
DueBefore(a, b) ==
    LET da == assignments[a].next_due_date
        db == assignments[b].next_due_date
    IN  \/ da # NULL /\ (db = NULL \/ da < db)
        \/ da = db /\ a <= b

\* maintenance.py lines 310-312
RECURSIVE RowsByDueDate(_)
RowsByDueDate(S) ==
    IF S = {} THEN <<>>
    ELSE LET first == CHOOSE a \in S : \A b \in S : DueBefore(a, b)
         IN  <<first>> \o RowsByDueDate(S \ {first})

\* maintenance.py get_vehicle_maintenance_schedules; vehicle_id 0 is no
\* vehicle filter, as is None
get_vehicle_maintenance_schedules(vehicle_id, due_soon, overdue) ==
    LET results == RowsByDueDate({a \in Joined :
                       /\ Truthy(vehicle_id) => assignments[a].vehicle_id = vehicle_id
                       /\ due_soon => DueSoonFilter(a)
                       /\ overdue => OverdueFilter(a)})
    IN  /\ last' = [NoStep EXCEPT !.op = "get_vehicle_maintenance_schedules",
                      !.status = 200,
                      !.body = [vehicle_id |-> vehicle_id, due_soon |-> due_soon,
                                overdue |-> overdue],
                      !.response = [i \in DOMAIN results |->
                           [id |-> results[i],
                            is_overdue |-> is_overdue(results[i]),
                            is_due_soon |-> is_due_soon(results[i])]]]
        /\ UNCHANGED <<fetchOthers, fetch>>

\* the tables the views are asked about: one vehicle, one template, and the
\* assignment that assign_maintenance_schedule made of them from a body
\* naming the last service, the vehicle's mileage and the clock being what
\* they have become since
ViewMileages ==
    {NULL, 52499, 52500, 52999, 53000, 53001, 53500, 53501, 54000, 54001}

ViewPerformedDates == {NULL, 118, 117, 110, 109, 96, 95, 90, 80, 79, 75}

ViewClock == {200}

ViewTemplates ==
    {schedule \in
        {[OilChange EXCEPT !.is_time_based = t, !.is_mileage_based = m,
                           !.time_interval_days = IF t THEN 90 ELSE NULL,
                           !.mileage_interval = IF m THEN 5000 ELSE NULL] :
            t \in BOOLEAN, m \in BOOLEAN} : ScheduleIsValid(schedule)}

ViewBodies ==
    [vehicle_id : {1}, schedule_id : {1}, last_performed_date : ViewPerformedDates,
     last_performed_mileage : {48000}, last_performed_engine_hours : {NULL}]

InitViews ==
    /\ now \in ViewClock
    /\ \E mileage \in ViewMileages, schedule \in ViewTemplates,
          assignment \in ViewBodies :
         LET vehicle == [samsara_id |-> "s1", vin |-> <<"", "V1">>,
                         mileage |-> mileage, engine_hours |-> NULL,
                         last_service_date |-> NULL]
         IN  /\ vehicles = <<vehicle>>
             /\ schedules = <<schedule>>
             /\ assignments = <<NewAssignment(assignment,
                                   AssignNextDue(assignment, schedule, vehicle))>>
    /\ diagnostic_codes = EmptyBag
    /\ activity_logs = <<>>
    /\ work_orders = <<>>
    /\ bg = [r \in SyncRuns |-> IdleRun]
    /\ ml = IdleLogRun
    /\ last = NoStep
    /\ resolves = 0
    /\ fetch = IdleFetch
    /\ deleted = NoneDeleted
    /\ parts_inventory = <<>>

NextViews ==
    \/ get_maintenance_due
    \/ get_dashboard_summary
    \/ \E vehicle_id \in {0, 1}, due_soon \in BOOLEAN, overdue \in BOOLEAN :
            get_vehicle_maintenance_schedules(vehicle_id, due_soon, overdue)

SpecViews == InitViews /\ [][NextViews]_vars

\* ---------------------------------------------------------------------
\* dashboard.py get_alerts

\* the first n elements of a list: .limit(n)
Limit(rows, n) == SubSeq(rows, 1, Min(n, Len(rows)))

\* lines 220-229: the open codes not linked to a work order, of a vehicle
\* that exists
OpenCodes ==
    LET found == {row \in BagToSet(diagnostic_codes) :
                     /\ row.work_order_id = NULL
                     /\ row.resolved_date = NULL
                     /\ row.vehicle_id \in DOMAIN vehicles}
    IN  [row \in found |-> CopiesIn(row, diagnostic_codes)]

\* lines 230-232: order_by(reported_date.desc()); rows of one date come in
\* an order the database chooses
RECURSIVE NewestFirst(_)
NewestFirst(rows) ==
    IF BagToSet(rows) = {} THEN <<>>
    ELSE LET first == CHOOSE row \in BagToSet(rows) :
                         \A other \in BagToSet(rows) :
                            row.reported_date >= other.reported_date
         IN  <<first>> \o NewestFirst(rows (-) SetToBag({first}))

\* lines 234-244; "" is None: code.severity or "Medium"
DiagnosticAlert(code) ==
    [type |-> "diagnostic_code", code |-> code.code, vehicle_id |-> code.vehicle_id,
     reported_date |-> code.reported_date,
     severity |-> IF code.severity = "" THEN "Medium" ELSE code.severity]

\* lines 220-244
diagnostic_alerts ==
    LET diagnostic_codes_found == Limit(NewestFirst(OpenCodes), 5)
    IN  [i \in DOMAIN diagnostic_codes_found |->
            DiagnosticAlert(diagnostic_codes_found[i])]

\* lines 247-251: the parts at or under their minimum
LowParts ==
    {p \in DOMAIN parts_inventory :
        parts_inventory[p].quantity_on_hand <= parts_inventory[p].minimum_quantity}

\* line 252: quantity_on_hand / minimum_quantity divides by zero for a part
\* whose minimum is 0 (the column default, models.py:135): PostgreSQL fails
\* the query, SQLite computes NULL
QueryFails(dialect) ==
    /\ dialect = "postgresql"
    /\ \E p \in LowParts : parts_inventory[p].minimum_quantity = 0

\* line 252: the integer quotient, NULL sorting first
StockRatio(p) ==
    IF parts_inventory[p].minimum_quantity = 0 THEN NULL
    ELSE parts_inventory[p].quantity_on_hand \div parts_inventory[p].minimum_quantity

\* lines 251-253: order_by(ratio.asc()); parts of one ratio in id order
RECURSIVE LowestFirst(_)
LowestFirst(ids) ==
    IF ids = {} THEN <<>>
    ELSE LET first == CHOOSE p \in ids : \A q \in ids :
                         \/ StockRatio(p) < StockRatio(q)
                         \/ StockRatio(p) = StockRatio(q) /\ p <= q
         IN  <<first>> \o LowestFirst(ids \ {first})

\* lines 256-265
InventoryAlert(p) ==
    [type |-> "low_inventory", part_id |-> p,
     quantity |-> parts_inventory[p].quantity_on_hand,
     minimum |-> parts_inventory[p].minimum_quantity,
     severity |-> IF parts_inventory[p].quantity_on_hand = 0
                  THEN "Critical" ELSE "High"]

\* lines 247-265
inventory_alerts ==
    LET low_inventory == Limit(LowestFirst(LowParts), 5)
    IN  [i \in DOMAIN low_inventory |-> InventoryAlert(low_inventory[i])]

\* lines 273-282: next_due_date 30 days back or more, or 1000 miles over
IsSeverelyOverdue(a) ==
    LET schedule == assignments[a]
        vehicle == vehicles[schedule.vehicle_id]
        maintenance == schedules[schedule.schedule_id]
    IN  \/ SqlLe(schedule.next_due_date, now - 30)
        \/ /\ maintenance.is_mileage_based
           /\ schedule.next_due_mileage # NULL
           /\ SqlLe(schedule.next_due_mileage + 1000, vehicle.mileage)

\* lines 293-301
MaintenanceAlert(a) ==
    [type |-> "overdue_maintenance", vehicle_id |-> assignments[a].vehicle_id,
     service |-> schedules[assignments[a].schedule_id].name,
     due_date |-> assignments[a].next_due_date,
     due_mileage |-> assignments[a].next_due_mileage, severity |-> "High"]

\* lines 268-301
maintenance_alerts ==
    LET overdue_maintenance ==
            Limit(RowsById({a \in Joined : IsSeverelyOverdue(a)}), 5)
    IN  [i \in DOMAIN overdue_maintenance |->
            MaintenanceAlert(overdue_maintenance[i])]

\* line 307
severity_order(severity) ==
    CASE severity = "Critical" -> 0 [] severity = "High" -> 1
      [] severity = "Medium" -> 2 [] severity = "Low" -> 3 [] OTHER -> 999

\* an alert goes in front of the sorted alerts of its own key
InsertBeforeEqual(alert, sorted) ==
    LET k == Cardinality({i \in DOMAIN sorted :
                 severity_order(sorted[i].severity) < severity_order(alert.severity)})
    IN  SubSeq(sorted, 1, k) \o <<alert>> \o SubSeq(sorted, k + 1, Len(sorted))

\* line 308: list.sort is stable, a later alert goes behind the sorted
\* alerts whose key is not greater than its own
Insert(alert, sorted) ==
    LET k == Cardinality({i \in DOMAIN sorted :
                 severity_order(sorted[i].severity) <= severity_order(alert.severity)})
    IN  SubSeq(sorted, 1, k) \o <<alert>> \o SubSeq(sorted, k + 1, Len(sorted))

\* line 308: all_alerts.sort(key=...)
RECURSIVE SortBySeverity(_)
SortBySeverity(all_alerts) ==
    IF Len(all_alerts) = 0 THEN <<>>
    ELSE Insert(all_alerts[Len(all_alerts)],
                SortBySeverity(SubSeq(all_alerts, 1, Len(all_alerts) - 1)))

\* dashboard.py get_alerts; body keeps the three lists of the handler
get_alerts(dialect) ==
    LET all_alerts == diagnostic_alerts \o inventory_alerts \o maintenance_alerts
    IN  /\ last' = IF QueryFails(dialect)
                   THEN [NoStep EXCEPT !.op = "get_alerts", !.status = 500]
                   ELSE [NoStep EXCEPT !.op = "get_alerts", !.status = 200,
                           !.body = [diagnostic_alerts |-> diagnostic_alerts,
                                     inventory_alerts |-> inventory_alerts,
                                     maintenance_alerts |-> maintenance_alerts],
                           !.response =
                              [alerts |-> SortBySeverity(all_alerts),
                               alert_counts |->
                                  [total |-> Len(all_alerts),
                                   diagnostic |-> Len(diagnostic_alerts),
                                   inventory |-> Len(inventory_alerts),
                                   maintenance |-> Len(maintenance_alerts)]]]
        /\ UNCHANGED <<fetchOthers, fetch>>

\* the tables get_alerts is asked about
AlertSeverities == {"Critical", "High", "Medium", "Low", "", "Unknown"}

AlertCode(code_value, severity, reported_date) ==
    [vehicle_id |-> 1, code |-> code_value, resolved_date |-> NULL,
     severity |-> severity, reported_date |-> reported_date,
     work_order_id |-> NULL]

\* six open codes, one resolved and one linked to a work order
ManyCodes ==
    SetToBag({AlertCode("P0100", "Low", 150), AlertCode("P0200", "High", 151),
              AlertCode("P0300", "Medium", 152), AlertCode("P0400", "High", 153),
              AlertCode("P0500", "Critical", 154), AlertCode("P0600", "Low", 155),
              [AlertCode("P0700", "Critical", 156) EXCEPT !.resolved_date = 157],
              [AlertCode("P0800", "Critical", 158) EXCEPT !.work_order_id = 1]})

AlertCodeTables ==
    {EmptyBag, ManyCodes}
       \cup {SetToBag({AlertCode("P0100", s, 150)}) : s \in AlertSeverities}
       \cup {SetToBag({AlertCode("P0100", s, 150), AlertCode("P0200", t, 160)}) :
                s \in AlertSeverities, t \in AlertSeverities}

Part(quantity_on_hand, minimum_quantity) ==
    [name |-> "filter", quantity_on_hand |-> quantity_on_hand,
     minimum_quantity |-> minimum_quantity]

Parts == {Part(0, 5), Part(3, 5), Part(9, 5), Part(0, 0)}

ManyParts ==
    <<Part(3, 5), Part(0, 5), Part(5, 5), Part(1, 5), Part(9, 5), Part(0, 9),
      Part(2, 9)>>

AlertPartTables ==
    {<<>>, ManyParts} \cup {<<p>> : p \in Parts}
       \cup {<<p, q>> : p \in Parts, q \in Parts}

AlertMileages == {NULL, 53999, 54000}

AlertPerformedDates == {80, 81}

AlertBodies ==
    [vehicle_id : {1}, schedule_id : {1}, last_performed_date : AlertPerformedDates,
     last_performed_mileage : {48000}, last_performed_engine_hours : {NULL}]

BothIntervals ==
    [OilChange EXCEPT !.is_time_based = TRUE, !.time_interval_days = 90]

InitAlerts ==
    /\ now \in ViewClock
    /\ \E mileage \in AlertMileages, assignment \in AlertBodies :
         LET vehicle == [samsara_id |-> "s1", vin |-> <<"", "V1">>,
                         mileage |-> mileage, engine_hours |-> NULL,
                         last_service_date |-> NULL]
         IN  /\ vehicles = <<vehicle>>
             /\ schedules = <<BothIntervals>>
             /\ assignments = <<NewAssignment(assignment,
                                   AssignNextDue(assignment, BothIntervals, vehicle))>>
    /\ diagnostic_codes \in AlertCodeTables
    /\ parts_inventory \in AlertPartTables
    /\ activity_logs = <<>>
    /\ work_orders = <<>>
    /\ bg = [r \in SyncRuns |-> IdleRun]
    /\ ml = IdleLogRun
    /\ last = NoStep
    /\ resolves = 0
    /\ fetch = IdleFetch
    /\ deleted = NoneDeleted

Dialects == {"postgresql", "sqlite"}

NextAlerts == \E dialect \in Dialects : get_alerts(dialect)

SpecAlerts == InitAlerts /\ [][NextAlerts]_vars

\* the due views and the alerts over the tables of the due views
NextAllViews == NextViews \/ NextAlerts

SpecAllViews == InitViews /\ [][NextAllViews]_vars

\* Updates: a template of all three dimensions or of mileage alone, its
\* assignment, and updates that name one field or two
FullService ==
    [name |-> <<"full", "service">>, is_mileage_based |-> TRUE,
     mileage_interval |-> 5000, is_time_based |-> TRUE,
     time_interval_days |-> 90, is_engine_hours_based |-> TRUE,
     engine_hours_interval |-> 100]

FieldUpdates ==
    {[last_performed_date |-> 1], [last_performed_date |-> 2],
     [last_performed_mileage |-> 49000], [last_performed_engine_hours |-> 20],
     [next_due_mileage |-> 60000],
     [last_performed_date |-> 1, last_performed_mileage |-> 49500]}

NextUpdate ==
    \/ Tick
    \/ create_vehicle(InterleaveVehicle)
    \/ \E schedule \in {OilChange, FullService} : create_maintenance_schedule(schedule)
    \/ \E assignment \in AssignmentBodies : assign_maintenance_schedule(assignment)
    \/ \E update \in FieldUpdates : update_maintenance_assignment(1, update)

SpecUpdate == Init /\ [][NextUpdate]_vars

\* Overlap: runs of the telemetry sync started at any time, each over a
\* list of one or two vehicles of a provider fleet of two ids
NextOverlap ==
    \/ \E r \in SyncRuns : background_sync_samsara_start(r)
    \/ \E r \in SyncRuns, len \in {1, 2} :
            background_sync_samsara_fetch(r, [status |-> 200, len |-> len])
    \/ \E r \in SyncRuns, vehicle \in BatchVehicles :
            background_sync_samsara_vehicle(r, vehicle, StatsFailure)
    \/ \E r \in SyncRuns : background_sync_samsara_codes(r, CodesFailure)

SpecOverlap == Init /\ [][NextOverlap]_vars

\* Log ids: runs of the maintenance-log sync for one vehicle that has the
\* template of the defect assigned, over logs whose ids are L1, L10 and L2
IdDvirs ==
    [id : {"L1", "L10", "L2"}, inspectionTimeMs : {1, 2},
     defects : {<<[comment |-> <<"oil">>, defectType |-> "engine"]>>}]

NextLogIds ==
    \/ create_vehicle(InterleaveVehicle)
    \/ create_maintenance_schedule(OilChange)
    \/ assign_maintenance_schedule(InterleaveAssignment)
    \/ sync_samsara_maintenance_logs_start
    \/ \E log \in IdDvirs :
          sync_samsara_maintenance_logs_vehicle([status |-> 200, dvirs |-> <<log>>])
    \/ sync_samsara_maintenance_logs_vehicle(LogsFailure)

SpecLogIds == Init /\ [][NextLogIds]_vars

\* Termination: runs of the telemetry sync, one after the other; the
\* provider fails or answers at every call, and a vehicle may be entered
\* by hand.  The event loop resumes a task
\* whose awaited call has returned or raised, and every call of the
\* provider returns or raises (httpx raises on its timeout): each run's
\* next step is taken.
KnownVin == <<"", "V1">>

\* the fleet holds, or not yet, a vehicle entered by hand with its vin and
\* no samsara_id; the provider reports vehicles with or without a vin
ManualVehicle ==
    [samsara_id |-> "", vin |-> KnownVin, mileage |-> NULL, engine_hours |-> NULL]

TerminationVehicles ==
    {[id |-> "s1", odometerMeters |-> NULL],
     [id |-> "s1", odometerMeters |-> NULL, vin |-> KnownVin],
     NoVehicle}

RunStep(r) ==
    \/ \E answer \in VehicleAnswers : background_sync_samsara_fetch(r, answer)
    \/ \E vehicle \in TerminationVehicles,
          stats \in {StatsFailure, [status |-> 200, engineHours |-> NULL]} :
            background_sync_samsara_vehicle(r, vehicle, stats)
    \/ \E answer \in {CodesFailure, [status |-> 200, data |-> <<>>]} :
            background_sync_samsara_codes(r, answer)

NextTermination ==
    \/ \E r \in SyncRuns : NoSyncInFlight /\ background_sync_samsara_start(r)
    \/ \E r \in SyncRuns : RunStep(r)
    \/ create_vehicle(ManualVehicle)

SpecTermination ==
    Init /\ [][NextTermination]_vars /\ \A r \in SyncRuns : WF_vars(RunStep(r))

Next ==
    \/ NextTelemetry \/ NextDiagnostics \/ NextComplete \/ NextInterleave
    \/ NextAssign \/ NextDue \/ NextBatch \/ NextFetch \/ NextTemplates
    \/ NextDelete \/ NextRequests \/ NextStatus \/ NextViews
    \/ NextAlerts \/ NextUpdate \/ NextOverlap
    \/ NextLogIds \/ NextTermination

Spec == Init /\ [][Next]_vars

\* ------------------------------------------------------------- properties
Max(a, b) == IF a >= b THEN a ELSE b

\* C1: when background_sync_samsara updates an existing vehicle (same
\* samsara_id), a reported odometer value (in miles) or engine-hours value
\* lower than the stored one leaves the stored value unchanged and a higher
\* one replaces it: the stored value becomes the maximum of both.
C1_SyncKeepsHigherReading ==
    [][last'.op = "sync_update" =>
        LET v == bg'[last'.id].vehicle_id
            reported == last'.vehicle.odometerMeters
            hours == last'.stats.engineHours
        IN  /\ (reported # NULL /\ vehicles[v].mileage # NULL) =>
                  vehicles'[v].mileage =
                      Max(vehicles[v].mileage, MetersToMiles(reported))
            /\ (last'.stats.status = 200 /\ hours # NULL
                    /\ vehicles[v].engine_hours # NULL) =>
                  vehicles'[v].engine_hours = Max(vehicles[v].engine_hours, hours)
      ]_vars

\* C3: as long as no diagnostic code is resolved, reconciling the same event
\* (same vehicle, same code) any number of times, in separate runs or
\* repeated inside one fetched list, leaves exactly one DiagnosticCode record
\* for that vehicle and code.
C3_OneRecordPerEvent ==
    resolves = 0 =>
        \A row \in BagToSet(diagnostic_codes) : CopiesIn(row, diagnostic_codes) = 1

\* C4: in a reconciliation step an event with key (vehicle, code) creates a
\* new DiagnosticCode record exactly when no unresolved record with that key
\* existed: an unresolved record blocks creation, resolved records do not.
C4_CreatedIffNoUnresolved ==
    [][(last'.op = "sync_codes" /\ last'.codes.status = 200) =>
        \A k \in 1..Len(last'.codes.data) :
            LET key == NewDiagnosticCode(bg[last'.id].vehicle_id,
                                         last'.codes.data[k])
            IN  (CopiesIn(key, diagnostic_codes') > CopiesIn(key, diagnostic_codes))
                    <=> ~BagIn(key, diagnostic_codes)
      ]_vars

\* C2: in every interleaving of complete_maintenance calls and
\* background_sync_samsara runs, no step lowers the stored mileage or the
\* stored engine hours of a vehicle.
C2_ReadingsNeverDecrease ==
    [][\A v \in DOMAIN vehicles :
          /\ vehicles[v].mileage # NULL =>
                 vehicles'[v].mileage >= vehicles[v].mileage
          /\ vehicles[v].engine_hours # NULL =>
                 vehicles'[v].engine_hours >= vehicles[v].engine_hours
      ]_vars

\* the request body asks for a work order
WorkOrderRequested(body) ==
    "create_work_order" \in DOMAIN body /\ body.create_work_order

\* C7: complete_maintenance is atomic: a call that fails persists none of
\* the assignment's changes, the vehicle's changes, the work order and the
\* COMPLETE audit entry; a call that succeeds persists them together.
C7_CompleteIsAtomic ==
    [][last'.op = "complete" =>
        IF last'.status # 200
        THEN UNCHANGED <<assignments, vehicles, work_orders, activity_logs>>
        ELSE LET a == last'.id
                 v == assignments[a].vehicle_id
             IN  /\ assignments'[a].last_performed_date # NULL
                 /\ vehicles'[v].last_service_date =
                        assignments'[a].last_performed_date
                 /\ activity_logs' # activity_logs
                 /\ activity_logs'[Len(activity_logs')].action = "COMPLETE"
                 /\ WorkOrderRequested(last'.body) =>
                        Len(work_orders') = Len(work_orders) + 1
      ]_vars

\* the case of C7: a completion that asks for a work order and supplies
\* 51000 miles for a vehicle stored with 50000 has failed, and neither the
\* vehicle nor the assignment nor a work order shows any of it
C7_FailedCompletionLeftNothing ==
    /\ last.op = "complete"
    /\ last.status = 500
    /\ WorkOrderRequested(last.body)
    /\ last.body.current_mileage = 51000
    /\ vehicles[assignments[last.id].vehicle_id].mileage = 50000
    /\ vehicles[assignments[last.id].vehicle_id].last_service_date = NULL
    /\ assignments[last.id].last_performed_date = NULL
    /\ work_orders = <<>>

\* C8: a complete_maintenance call creates exactly one work order when
\* create_work_order is requested and none otherwise, and a second call in a
\* row with identical arguments leaves the assignment and the vehicle as the
\* first call left them.
C8_CompleteTwice ==
    [][(last'.op = "complete" /\ last'.status # 404) =>
        /\ Len(work_orders') = Len(work_orders)
               + (IF WorkOrderRequested(last'.body) THEN 1 ELSE 0)
        /\ (last.op = "complete" /\ last.id = last'.id /\ last.body = last'.body) =>
               /\ assignments' = assignments
               /\ vehicles' = vehicles
      ]_vars

\* C9: complete_maintenance sets the vehicle's mileage (engine hours) to the
\* supplied value exactly when a value is supplied and exceeds the stored
\* one or the stored one is unset; otherwise the stored value stays.
C9_CompleteRaisesReadings ==
    [][(last'.op = "complete" /\ last'.status # 404) =>
        LET v == assignments[last'.id].vehicle_id
            mileage == last'.body.current_mileage
            hours == last'.body.current_engine_hours
        IN  /\ vehicles'[v].mileage =
                   IF mileage # NULL /\ (vehicles[v].mileage = NULL
                                            \/ mileage > vehicles[v].mileage)
                   THEN mileage ELSE vehicles[v].mileage
            /\ vehicles'[v].engine_hours =
                   IF hours # NULL /\ (vehicles[v].engine_hours = NULL
                                          \/ hours > vehicles[v].engine_hours)
                   THEN hours ELSE vehicles[v].engine_hours
      ]_vars

\* C5: in every reachable state there is at most one assignment per
\* (vehicle_id, schedule_id) pair, under any interleaving of
\* assign_maintenance_schedule requests and sync_samsara_maintenance_logs
\* runs, including a run in which several defects of one log resolve to the
\* same template.
C5_OneAssignmentPerPair ==
    \A a, b \in AssignmentIds :
        (/\ assignments[a].vehicle_id = assignments[b].vehicle_id
         /\ assignments[a].schedule_id = assignments[b].schedule_id) => a = b

\* the case of C5: a run has handled a log with two defects that both
\* resolve to template 1, for a vehicle without that assignment, and has
\* ended without persisting either of the two assignments it added
C5_TwoDefectsOneTemplate ==
    /\ last.op = "logs_vehicle" /\ last.status = 200
    /\ Len(last.body) = 1 /\ Len(last.body[1].defects) = 2
    /\ \A k \in 1..2 :
           MatchingSchedule(ml, MaintenanceName(last.body[1].defects[k])) = 1
    /\ ml.pc = "failed"
    /\ ExistingAssignment(last.id, 1) = NULL

\* C6: every assignment satisfies, for each dimension its template enables
\* and for which next due and last performed are set: next due = last
\* performed + the template's interval.
C6_NextDueIsLastPerformedPlusInterval ==
    \A a \in AssignmentIds :
        LET row == assignments[a]
            schedule == schedules[row.schedule_id]
        IN  /\ (schedule.is_mileage_based /\ row.next_due_mileage # NULL
                    /\ row.last_performed_mileage # NULL) =>
                   row.next_due_mileage =
                       row.last_performed_mileage + schedule.mileage_interval
            /\ (schedule.is_time_based /\ row.next_due_date # NULL
                    /\ row.last_performed_date # NULL) =>
                   row.next_due_date =
                       row.last_performed_date + schedule.time_interval_days
            /\ (schedule.is_engine_hours_based /\ row.next_due_engine_hours # NULL
                    /\ row.last_performed_engine_hours # NULL) =>
                   row.next_due_engine_hours =
                       row.last_performed_engine_hours + schedule.engine_hours_interval

\* C10: in a reconciliation batch a provider failure while one vehicle is
\* handled, a response that is not a success or a network exception, does
\* not abort the batch: the task goes on to the next step of the vehicle or
\* to the next vehicle, and after the last one to its completion entry.
C10_FailureDoesNotAbortBatch ==
    [][/\ (last'.op \in {"sync_update", "sync_create"} /\ last'.stats.status # 200) =>
            bg'[last'.id].pc = "codes"
       /\ (last'.op = "sync_codes" /\ last'.codes.status # 200) =>
            /\ bg'[last'.id].i = bg[last'.id].i + 1
            /\ bg'[last'.id].pc = IF bg[last'.id].i < bg[last'.id].len
                                  THEN "stats" ELSE "done"
       /\ (last'.op = "logs_vehicle" /\ last'.status # 200) =>
            IF ml.i < Len(ml.vehicles)
            THEN ml'.pc = "get" /\ ml'.i = ml.i + 1
            ELSE ml'.pc = "done"
      ]_vars

\* the concatenation of the type lists of the requests sent
RECURSIVE Flatten(_)
Flatten(calls) ==
    IF calls = <<>> THEN <<>> ELSE Head(calls) \o Flatten(Tail(calls))

\* C11: for a list of n requested types fetch_vehicle_stats sends
\* ceil(n/3) requests of at most 3 types each, which split the list in order
\* (8 types: 3, 3, 2); when every request succeeds the snapshot returned
\* has every field of every record the provider returned.
C11_BatchesOfThree ==
    (fetch.fn = "stats" /\ fetch.pc \in {"returned", "raised"}) =>
        /\ 3 * Len(fetch.calls) >= Len(fetch.types)
        /\ 3 * (Len(fetch.calls) - 1) < Len(fetch.types)
        /\ \A b \in DOMAIN fetch.calls : Len(fetch.calls[b]) \in 1..3
        /\ Flatten(fetch.calls) = fetch.types
        /\ Len(fetch.types) = 8 =>
               [b \in DOMAIN fetch.calls |-> Len(fetch.calls[b])] = <<3, 3, 2>>
        /\ (\A b \in DOMAIN fetch.answers : fetch.answers[b].status = 200) =>
               \A b \in DOMAIN fetch.answers :
                   \A i \in DOMAIN fetch.answers[b].data :
                       DOMAIN fetch.answers[b].data[i] \subseteq DOMAIN fetch.result

\* the case of C11: 8 types were asked for, three requests were answered
\* with a record each and the snapshot has the 8 fields and the id
C11_EightTypesMerged ==
    /\ fetch.fn = "stats" /\ fetch.pc = "returned"
    /\ Len(fetch.types) = 8
    /\ Len(fetch.calls) = 3
    /\ \A b \in DOMAIN fetch.answers :
           fetch.answers[b].status = 200 /\ Len(fetch.answers[b].data) = 1
    /\ Cardinality(DOMAIN fetch.result) = 9

\* the fields of what a fetch returned
ReturnedFields ==
    IF fetch.fn = "stats" THEN DOMAIN fetch.result
    ELSE UNION {DOMAIN fetch.result[i] : i \in DOMAIN fetch.result}

\* C12: in each of the three batched fetches, when a batch fails after an
\* earlier batch succeeded with data, the function still returns and what
\* it returns has the fields merged from the earlier batch.
C12_EarlierBatchesKept ==
    fetch.pc \in {"returned", "raised"} =>
        \A j, k \in DOMAIN fetch.answers :
            (/\ j < k
             /\ fetch.answers[j].status = 200
             /\ Len(fetch.answers[j].data) > 0
             /\ fetch.answers[k].status # 200) =>
                /\ fetch.pc = "returned"
                /\ DOMAIN fetch.answers[j].data[1] \subseteq ReturnedFields

\* C13: in what fetch_vehicle_stats_feed and fetch_vehicle_stats_history
\* return, every stat of a vehicle's record was returned by the provider
\* for that vehicle, whatever the order and number of the records of each
\* batch.
C13_MergedByVehicle ==
    (fetch.fn \in {"feed", "history"} /\ fetch.pc = "returned") =>
        \A i \in DOMAIN fetch.result :
            \A f \in DOMAIN fetch.result[i] :
                fetch.result[i][f] = fetch.result[i]["id"]

\* C14: every template has at least one of its three flags true, and every
\* true flag has an interval that is set and positive.
C14_FlagsHavePositiveIntervals ==
    \A s \in ScheduleIds :
        LET schedule == schedules[s]
        IN  /\ schedule.is_mileage_based \/ schedule.is_time_based
                   \/ schedule.is_engine_hours_based
            /\ schedule.is_mileage_based =>
                   (schedule.mileage_interval # NULL /\ schedule.mileage_interval > 0)
            /\ schedule.is_time_based =>
                   (schedule.time_interval_days # NULL
                        /\ schedule.time_interval_days > 0)
            /\ schedule.is_engine_hours_based =>
                   (schedule.engine_hours_interval # NULL
                        /\ schedule.engine_hours_interval > 0)

\* C15: delete_maintenance_schedule is rejected while an assignment
\* references the template, and under any interleaving of the delete and
\* assign handlers every assignment references a template that exists.
C15_AssignedTemplateExists ==
    /\ [](\A a \in AssignmentIds : assignments[a].schedule_id \in ScheduleIds)
    /\ [][(/\ last'.op = "delete_schedule"
           /\ \E a \in AssignmentIds : assignments[a].schedule_id = last'.id) =>
              (last'.status = 400 /\ deleted' = deleted)]_vars

\* the case of C15: an assignment was deleted, a later assignment of the
\* same template exists, and the request to delete the template has just
\* been refused
C15_DeleteRefused ==
    /\ last.op = "delete_schedule" /\ last.status = 400
    /\ deleted.assignments # {}
    /\ \E a \in AssignmentIds : assignments[a].schedule_id = last.id

\* C16: at most one background_sync_samsara run is active at any time: no
\* second run is between its start entry and its completion or error entry
\* while another one is.
C16_OneRunActive ==
    Cardinality({r \in SyncRuns : bg[r].pc \notin {"idle", "done", "failed"}}) <= 1

\* a sync appears stuck: after the latest start entry there are entries for
\* vehicles and neither a completion nor an error entry
AppearsStuck ==
    \E i \in DOMAIN activity_logs :
        /\ IsStartLog(activity_logs[i])
        /\ \E j \in DOMAIN activity_logs :
               /\ j > i
               /\ activity_logs[j].entity_type = "VEHICLE"
               /\ IsSyncLog(activity_logs[j])
        /\ \A j \in DOMAIN activity_logs :
               j > i => activity_logs[j].action \notin {"SYNC", "SYNC_COMPLETE", "ERROR"}

\* the steps of a background_sync_samsara run
SyncRunSteps ==
    {"sync_start", "sync_fetch", "sync_skip", "sync_update", "sync_create",
     "sync_codes"}

\* C17: after reset_sync_status was called while a sync appeared stuck,
\* get_sync_status reports "completed": the status is "completed" right
\* after the reset, stays so over every step that is not a step of a sync
\* run, and get_sync_status answers with it.
C17_ResetReportsCompleted ==
    [][/\ (last'.op = "reset_sync_status" /\ AppearsStuck) =>
              SyncStatus(activity_logs') = "completed"
       /\ (last'.op \notin SyncRunSteps /\ SyncStatus(activity_logs) = "completed") =>
              SyncStatus(activity_logs') = "completed"
       /\ (last'.op = "get_sync_status") =>
              last'.response.status = SyncStatus(activity_logs)
      ]_vars

\* ---- the due views ----

Rank(priority) ==
    CASE priority = "high" -> 3 [] priority = "medium" -> 2 [] OTHER -> 1

\* the band of the mileage dimension alone
MileageBand(a) ==
    LET vehicle == vehicles[assignments[a].vehicle_id]
        next_due == assignments[a].next_due_mileage
    IN  IF /\ schedules[assignments[a].schedule_id].is_mileage_based
           /\ vehicle.mileage # NULL /\ next_due # NULL
        THEN IF vehicle.mileage - next_due > 1000 THEN "high"
             ELSE IF vehicle.mileage - next_due > 500 THEN "medium" ELSE "low"
        ELSE "low"

\* the band of the date dimension alone
DateBand(a) ==
    LET next_due == assignments[a].next_due_date
    IN  IF schedules[assignments[a].schedule_id].is_time_based /\ next_due # NULL
        THEN IF now - next_due > 30 THEN "high"
             ELSE IF now - next_due > 14 THEN "medium" ELSE "low"
        ELSE "low"

MostUrgent(p, q) == IF Rank(p) >= Rank(q) THEN p ELSE q

\* C18: every item of get_maintenance_due reports the most urgent of the
\* band of its mileage dimension and the band of its date dimension, so a
\* high band of one dimension is never lowered by the other.
C18_PriorityIsMostUrgentBand ==
    (last.op = "get_maintenance_due" /\ last.status = 200) =>
        \A i \in DOMAIN last.response :
            last.response[i].priority =
                MostUrgent(MileageBand(last.response[i].id),
                           DateBand(last.response[i].id))

\* the assignments whose only dimension is mileage, with a known mileage on
\* both sides
MileageOnly ==
    {a \in Joined :
        /\ schedules[assignments[a].schedule_id].is_mileage_based
        /\ ~schedules[assignments[a].schedule_id].is_time_based
        /\ ~schedules[assignments[a].schedule_id].is_engine_hours_based
        /\ assignments[a].next_due_date = NULL
        /\ Truthy(assignments[a].next_due_mileage)
        /\ Truthy(vehicles[assignments[a].vehicle_id].mileage)}

PastDueMileage(a) ==
    vehicles[assignments[a].vehicle_id].mileage > assignments[a].next_due_mileage

ResponseIds == {last.response[i].id : i \in DOMAIN last.response}

\* C19: on the mileage dimension every view calls an assignment overdue or
\* due iff the vehicle's mileage is strictly greater than next_due_mileage:
\* the is_overdue flag and the overdue filter of
\* get_vehicle_maintenance_schedules, the items of get_maintenance_due and
\* the maintenance_due_count of get_dashboard_summary.
C19_MileageOverdueIsStrict ==
    /\ last.op = "get_vehicle_maintenance_schedules" =>
         /\ \A i \in DOMAIN last.response :
               last.response[i].id \in MileageOnly =>
                  (last.response[i].is_overdue <=> PastDueMileage(last.response[i].id))
         /\ (last.body.overdue /\ ~last.body.due_soon) =>
               \A a \in MileageOnly : a \in ResponseIds <=> PastDueMileage(a)
    /\ (last.op = "get_maintenance_due" /\ last.status = 200) =>
         \A a \in MileageOnly : a \in ResponseIds <=> PastDueMileage(a)
    /\ (last.op = "get_dashboard_summary" /\ Joined \subseteq MileageOnly) =>
         last.response.maintenance_due_count =
            Cardinality({a \in MileageOnly : PastDueMileage(a)})

MilesLeft(a) ==
    assignments[a].next_due_mileage - vehicles[assignments[a].vehicle_id].mileage

\* C20: for a mileage-based assignment with a known vehicle mileage,
\* get_vehicle_maintenance_schedules reports is_due_soon iff
\* 0 < next_due_mileage - mileage <= 500, and its due_soon filter selects
\* exactly these assignments.
C20_DueSoonWithin500 ==
    last.op = "get_vehicle_maintenance_schedules" =>
        /\ \A i \in DOMAIN last.response :
              last.response[i].id \in MileageOnly =>
                 (last.response[i].is_due_soon <=>
                     (0 < MilesLeft(last.response[i].id)
                         /\ MilesLeft(last.response[i].id) <= 500))
        /\ (last.body.due_soon /\ ~last.body.overdue) =>
              \A a \in MileageOnly :
                 a \in ResponseIds <=> (0 < MilesLeft(a) /\ MilesLeft(a) <= 500)

\* ---- get_alerts ----

RECURSIVE OfRank(_, _)
\* the alerts of one severity rank, in the order they have in alerts
OfRank(alerts, rank) ==
    IF Len(alerts) = 0 THEN <<>>
    ELSE IF severity_order(Head(alerts).severity) = rank
    THEN <<Head(alerts)>> \o OfRank(Tail(alerts), rank)
    ELSE OfRank(Tail(alerts), rank)

\* C21: the alerts get_alerts returns are the concatenation diagnostic,
\* inventory, maintenance alerts rearranged by ascending severity rank,
\* alerts of one rank in the order of the concatenation; no category has
\* more than 5 alerts and alert_counts.total is the sum of the three counts.
C21_AlertsStablySorted ==
    (last.op = "get_alerts" /\ last.status = 200) =>
        LET all_alerts == last.body.diagnostic_alerts \o last.body.inventory_alerts
                             \o last.body.maintenance_alerts
            counts == last.response.alert_counts
        IN  /\ last.response.alerts =
                  OfRank(all_alerts, 0) \o OfRank(all_alerts, 1)
                     \o OfRank(all_alerts, 2) \o OfRank(all_alerts, 3)
                     \o OfRank(all_alerts, 999)
            /\ counts.diagnostic = Len(last.body.diagnostic_alerts)
            /\ counts.inventory = Len(last.body.inventory_alerts)
            /\ counts.maintenance = Len(last.body.maintenance_alerts)
            /\ counts.diagnostic <= 5 /\ counts.inventory <= 5
            /\ counts.maintenance <= 5
            /\ counts.total = counts.diagnostic + counts.inventory + counts.maintenance

\* get_alerts answered with five of six open codes, five of six low parts
\* and an overdue assignment, and the sort moved alerts of all three
\* categories, of which the rank High holds one of each
C21_AllCategoriesSorted ==
    /\ last.op = "get_alerts" /\ last.status = 200
    /\ last.response.alert_counts.diagnostic = 5
    /\ last.response.alert_counts.inventory = 5
    /\ last.response.alert_counts.maintenance = 1
    /\ Cardinality(BagToSet(OpenCodes)) = 6 /\ Cardinality(LowParts) = 6
    /\ last.response.alerts # last.body.diagnostic_alerts
          \o last.body.inventory_alerts \o last.body.maintenance_alerts
    /\ \A t \in {"diagnostic_code", "low_inventory", "overdue_maintenance"} :
          \E i \in DOMAIN last.response.alerts :
             /\ last.response.alerts[i].type = t
             /\ last.response.alerts[i].severity = "High"

\* ---- assignments: seeding and updates ----

\* C22: an assignment created by assign_maintenance_schedule stores, for
\* each last_performed value, what the caller supplied or, when the caller
\* supplied none, the vehicle's mileage, the vehicle's engine hours or the
\* current time.
C22_LastPerformedSeeded ==
    [][(last'.op = "assign" /\ last'.status = 201) =>
          LET row == assignments'[Len(assignments')]
              vehicle == vehicles[last'.body.vehicle_id]
          IN  /\ row.last_performed_mileage =
                    IF last'.body.last_performed_mileage # NULL
                    THEN last'.body.last_performed_mileage ELSE vehicle.mileage
              /\ row.last_performed_engine_hours =
                    IF last'.body.last_performed_engine_hours # NULL
                    THEN last'.body.last_performed_engine_hours
                    ELSE vehicle.engine_hours
              /\ row.last_performed_date =
                    IF last'.body.last_performed_date # NULL
                    THEN last'.body.last_performed_date ELSE now
      ]_vars

Dimensions == {"date", "mileage", "engine_hours"}

LastPerformed(d) ==
    CASE d = "date" -> "last_performed_date"
      [] d = "mileage" -> "last_performed_mileage"
      [] OTHER -> "last_performed_engine_hours"

NextDueField(d) ==
    CASE d = "date" -> "next_due_date" [] d = "mileage" -> "next_due_mileage"
      [] OTHER -> "next_due_engine_hours"

\* the interval of an enabled dimension of a template, NULL when the
\* dimension is not enabled
EnabledInterval(schedule, d) ==
    CASE d = "date" ->
            IF schedule.is_time_based THEN schedule.time_interval_days ELSE NULL
      [] d = "mileage" ->
            IF schedule.is_mileage_based THEN schedule.mileage_interval ELSE NULL
      [] OTHER ->
            IF schedule.is_engine_hours_based THEN schedule.engine_hours_interval
            ELSE NULL

LogRunEnded == {"done", "failed", "crashed"}

\* the defects of the logs of an answer that the run processes: those of
\* the logs with defects of which no audit entry names the log id
ProcessedDefects(dvirs) ==
    {<<k, d>> \in (DOMAIN dvirs) \X (1..MaxDefects) :
        /\ d \in DOMAIN dvirs[k].defects
        /\ ~ExistingLog(ml, dvirs[k])}

\* C24: when a run of sync_samsara_maintenance_logs has processed a defect
\* whose name matches no template, then after the run a time-based template
\* of that name with an interval of 90 days exists and the vehicle has an
\* assignment to it with last_performed_date the inspection date and
\* next_due_date 90 days later; when every defect matches a template, the
\* run creates no template.
C24_UnmatchedDefectGetsTemplate ==
    [][(/\ last'.op = "logs_vehicle" /\ last'.status = 200
        /\ ml'.pc \in LogRunEnded /\ Len(ml.vehicles) = 1) =>
          LET dvirs == last'.body
              name(p) == MaintenanceName(dvirs[p[1]].defects[p[2]])
              log_date(p) == IF dvirs[p[1]].inspectionTimeMs # NULL
                             THEN dvirs[p[1]].inspectionTimeMs ELSE now
              matched(p) == \E i \in ScheduleIds : Contains(schedules[i].name, name(p))
          IN  /\ \A p \in ProcessedDefects(dvirs) :
                    ~matched(p) =>
                       \E i \in DOMAIN schedules' \ deleted.schedules :
                          /\ schedules'[i].name = name(p)
                          /\ schedules'[i].is_time_based
                          /\ schedules'[i].time_interval_days = 90
                          /\ \E a \in DOMAIN assignments' \ deleted.assignments :
                                /\ assignments'[a].vehicle_id = last'.id
                                /\ assignments'[a].schedule_id = i
                                /\ assignments'[a].last_performed_date = log_date(p)
                                /\ assignments'[a].next_due_date = log_date(p) + 90
              /\ (\A p \in ProcessedDefects(dvirs) : matched(p)) =>
                    schedules' = schedules
      ]_vars

\* ---- the telemetry sync: failures, vehicles, termination ----

\* the audit entries a step has added
AddedEntries ==
    {activity_logs'[k] : k \in DOMAIN activity_logs' \ DOMAIN activity_logs}

\* C25: a failed stats fetch or a failed diagnostic-code fetch for one
\* vehicle of a background_sync_samsara run adds an entry that records the
\* error to the audit trail, and the run goes on.
C25_FailureIsAudited ==
    [][(\/ last'.op \in {"sync_update", "sync_create"} /\ last'.stats.status # 200
        \/ last'.op = "sync_codes" /\ last'.codes.status # 200) =>
          /\ \E entry \in AddedEntries : entry.action = "ERROR"
          /\ bg'[last'.id].pc # "failed"
      ]_vars

\* ---- a vehicle without a mileage ----

\* the date dimension of an assignment as get_vehicle_maintenance_schedules
\* reads it
DateOverdue(a) ==
    /\ schedules[assignments[a].schedule_id].is_time_based
    /\ assignments[a].next_due_date # NULL /\ assignments[a].next_due_date < now

DateDueSoon(a) ==
    /\ schedules[assignments[a].schedule_id].is_time_based
    /\ assignments[a].next_due_date # NULL
    /\ assignments[a].next_due_date >= now /\ assignments[a].next_due_date <= now + 7

\* the assignments of a vehicle whose mileage and engine hours are unknown
MileageUnknown ==
    {a \in Joined : /\ vehicles[assignments[a].vehicle_id].mileage = NULL
                    /\ vehicles[assignments[a].vehicle_id].engine_hours = NULL}

\* C26: for an assignment of a vehicle whose mileage is unknown the three
\* views answer (status 200) and take every signal from the date dimension
\* alone: the flags of get_vehicle_maintenance_schedules, the selection and
\* the priority of get_maintenance_due, the overdue alert of get_alerts.
C26_UnknownMileageGivesNoSignal ==
    \A a \in MileageUnknown :
        /\ last.op = "get_vehicle_maintenance_schedules" =>
              /\ last.status = 200
              /\ \A i \in DOMAIN last.response :
                    last.response[i].id = a =>
                       /\ last.response[i].is_overdue <=> DateOverdue(a)
                       /\ last.response[i].is_due_soon <=> DateDueSoon(a)
        /\ last.op = "get_maintenance_due" =>
              /\ last.status = 200
              /\ \A i \in DOMAIN last.response :
                    last.response[i].id = a => last.response[i].priority = DateBand(a)
              /\ (\E i \in DOMAIN last.response : last.response[i].id = a)
                    <=> SqlLe(assignments[a].next_due_date, now)
        /\ last.op = "get_alerts" =>
              /\ last.status = 200
              /\ (last.response.alert_counts.maintenance = 1)
                    <=> SqlLe(assignments[a].next_due_date, now - 30)

InFlight(r) == bg[r].pc \notin {"idle", "done", "failed", "crashed"}

\* C27: whatever runs of background_sync_samsara there were, one after the
\* other or overlapping, no two vehicles have the same samsara_id; a
\* provider vehicle whose id a vehicle has updates that vehicle and adds
\* none, and one whose id no vehicle has adds exactly one with that id.
C27_OneVehiclePerSamsaraId ==
    /\ [](\A v, w \in DOMAIN vehicles :
             (vehicles[v].samsara_id # "" /\ vehicles[v].samsara_id = vehicles[w].samsara_id)
                => v = w)
    /\ [][/\ last'.op = "sync_update" =>
               /\ \E v \in DOMAIN vehicles : vehicles[v].samsara_id = last'.vehicle.id
               /\ Len(vehicles') = Len(vehicles)
               /\ \A v \in DOMAIN vehicles :
                     vehicles[v].samsara_id # last'.vehicle.id => vehicles'[v] = vehicles[v]
          /\ last'.op = "sync_create" =>
               /\ \A v \in DOMAIN vehicles : vehicles[v].samsara_id # last'.vehicle.id
               /\ vehicles' = Append(vehicles, vehicles'[Len(vehicles')])
               /\ vehicles'[Len(vehicles')].samsara_id = last'.vehicle.id
          /\ (/\ last'.op \in {"sync_update", "sync_create", "sync_crash"}
              /\ \E v \in DOMAIN vehicles : vehicles[v].samsara_id = last'.vehicle.id)
                => last'.op = "sync_update"
          /\ last'.op \in {"sync_start", "sync_fetch", "sync_skip", "sync_codes",
                            "sync_crash"} =>
               vehicles' = vehicles
         ]_vars

\* the second run has updated the vehicle of an id while the first run,
\* which is still between two of its steps, had created it
C27_OverlappingRunsOneVehicle ==
    /\ last.op = "sync_update" /\ last.id = 2
    /\ InFlight(1) /\ InFlight(2)
    /\ \E k \in DOMAIN activity_logs :
          /\ activity_logs[k].action = "CREATE" /\ activity_logs[k].details.samsara
          /\ vehicles[activity_logs[k].entity_id].samsara_id = last.vehicle.id

\* ---- the ids of the maintenance logs ----

\* an audit entry of the maintenance-log sync that names the log id
NamesLog(entry, log_id) ==
    /\ entry.action = "SYNC" /\ entry.entity_type = "SAMSARA_MAINTENANCE"
    /\ entry.details.log_id = log_id

\* C28: a run of sync_samsara_maintenance_logs that ends with its commit
\* skips a log with defects exactly when an earlier run has processed a log
\* of the same id: a log whose id an entry names adds no entry and changes
\* no template and no assignment, and a log whose id no entry names is
\* processed and gets its entry, whatever other ids the entries name.
C28_SkippedIffSameId ==
    [][(/\ last'.op = "logs_vehicle" /\ last'.status = 200
        /\ ml'.pc = "done" /\ Len(ml.vehicles) = 1) =>
          \A k \in DOMAIN last'.body :
             LET log == last'.body[k]
                 processed == \E i \in DOMAIN activity_logs :
                                 NamesLog(activity_logs[i], log.id)
                 added == \E entry \in AddedEntries : NamesLog(entry, log.id)
             IN  /\ processed => (~added /\ assignments' = assignments
                                          /\ schedules' = schedules)
                 /\ ~processed => added
      ]_vars

\* ---- termination of the telemetry sync ----

RunEnded(r) == bg[r].pc \in {"done", "failed"}

IsTerminalLog(entry) ==
    entry.action \in {"SYNC_COMPLETE", "ERROR"} /\ entry.entity_type = "SYSTEM"

\* C29: every run of background_sync_samsara that has written its start
\* entry comes to its end, and it writes exactly one terminal entry,
\* SYNC_COMPLETE or ERROR, in the step that ends it and none before or
\* after, whatever the provider answers.
C29_StartedRunEndsOnce ==
    /\ \A r \in SyncRuns : (bg[r].pc # "idle") ~> RunEnded(r)
    /\ [][/\ Cardinality({k \in DOMAIN activity_logs' \ DOMAIN activity_logs :
                             IsTerminalLog(activity_logs'[k])})
               = Cardinality({r \in SyncRuns : ~RunEnded(r) /\ RunEnded(r)'})
          /\ \A r \in SyncRuns : RunEnded(r) => bg'[r] = bg[r]
          /\ \A k \in DOMAIN activity_logs : activity_logs'[k] = activity_logs[k]
         ]_vars

\* ---- the assignment after a completion ----

\* the body names no completion date, mileage or engine hours
NoExplicitValues(body) ==
    /\ body.completion_date = NULL
    /\ body.current_mileage = NULL
    /\ body.current_engine_hours = NULL

KnownReadings(vehicle) == vehicle.mileage # NULL /\ vehicle.engine_hours # NULL

====
